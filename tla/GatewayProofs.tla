--------------------------- MODULE GatewayProofs ---------------------------
(***************************************************************************)
(* Theorems about Gateway, for any number of calls and sessions and        *)
(* whatever the workers that connect declare.                              *)
(***************************************************************************)
EXTENDS Gateway, FiniteSetTheorems, TLAPS

(***************************************************************************)
(* The inductive invariant. A call's record forgets its session and its id *)
(* when it returns, while its request may still be on the wire or in a     *)
(* handler; so the invariant speaks of the requests themselves: an id is   *)
(* given to one call of a session, a call's request is in one place, and   *)
(* once it is answered it is nowhere.                                      *)
(***************************************************************************)

\* The requests a worker has yet to answer, and the answers it has sent.
Spoken(q) == {q[k] : k \in DOMAIN q} \ {Goodbye}
held == [i \in Sessions |-> down[i] \cup running[i]]
said == [i \in Sessions |-> Spoken(up[i])]

Pumps         == {"none", "acking", "reading", "removing", "gone"}
Streams       == {"none", "up", "dead"}
ToolClasses   == Classes \cup {NoTool}
Versions      == STRING \cup {""}
OfferRecord   == [version : Versions, decides : BOOLEAN, class : ToolClasses, hook : BOOLEAN]
Ids           == 0..Cardinality(Calls)
SessionRecord == [pump : Pumps, stream : Streams, offer : OfferRecord,
                  closed : BOOLEAN, stopping : BOOLEAN, seq : Ids]
PCs           == {"unmade", "pick", "picked", "send", "wait", "returned"}
Places        == Sessions \cup {0}
Ends          == Outcomes \cup {"none"}
CallRecord    == [pc : PCs, kind : Kinds, class : ToolClasses, session : Places, id : Ids,
                  outcome : Ends]
ReplyKinds    == Answers \cup {"empty", "closed"}
ReplyRecord   == [kind : ReplyKinds, of : Calls]
Message == [id : Nat, of : Calls, kind : Answers]

Shapes ==
    /\ session \in [Sessions -> SessionRecord]
    /\ listed \subseteq Sessions
    /\ pending \in [Sessions -> SUBSET Requests]
    /\ down \in [Sessions -> SUBSET Requests]
    /\ running \in [Sessions -> SUBSET Requests]
    /\ up \in [Sessions -> Seq(Message \cup {Goodbye})]
    /\ call \in [Calls -> CallRecord]
    /\ reply \in [Calls -> ReplyRecord]
    /\ ran \subseteq Calls

\* Somebody may still act on c.
Taken(c) == \E i \in Sessions : \E r \in held[i] : r[2] = c

\* Calls that have been given an id. Each takes one, so ids do not run out.
Numbered == {c \in Calls : call[c].pc \in {"send", "wait", "returned"}}
IdsLast  == \A i \in Sessions : session[i].seq <= Cardinality(Numbered)

\* Calls that wait on a session. What bears one's id is its own: no other call
\* that waits there, no request and no answer of another call.
Waiting(c) == call[c].pc \in {"send", "wait"}
IdsGiven ==
    /\ \A c \in Calls : Waiting(c) => call[c].id <= session[With(c)].seq
    /\ \A i \in Sessions : \A r \in held[i] : r[1] <= session[i].seq
    /\ \A i \in Sessions : \A m \in said[i] : m.id <= session[i].seq
IdsAreOwn ==
    \A c \in Calls : Waiting(c) =>
        /\ \A d \in Calls : Waiting(d) /\ With(d) = With(c) /\ call[d].id = call[c].id => d = c
        /\ \A r \in held[With(c)] : r[1] = call[c].id => r[2] = c
        /\ \A m \in said[With(c)] : m.id = call[c].id => m.of = c

\* A call that waits is in its session's pending table until that closes, and
\* nobody else is in it.
PendingIsWaiting ==
    /\ \A i \in Sessions : \A r \in pending[i] :
          Waiting(r[2]) /\ With(r[2]) = i /\ call[r[2]].id = r[1]
    /\ \A c \in Calls : Waiting(c) /\ ~session[With(c)].closed =>
          <<call[c].id, c>> \in pending[With(c)]
    /\ \A c \in Calls : ~Waiting(c) => reply[c] = NoReply(c)

\* A call goes to a session that has registered, and there is nothing for a
\* session that has not.
Placed ==
    /\ \A c \in Calls : call[c].pc \in {"picked", "send", "wait"} =>
          With(c) \in Sessions /\ session[With(c)].pump # "none"
    /\ \A c \in Calls : call[c].pc \in {"send", "wait"} => call[c].id \in 1..Cardinality(Calls)
    /\ \A i \in Sessions : session[i].pump = "none" => i \notin listed /\ held[i] = {}

\* A request is in one place.
OneRequest ==
    /\ \A i, j \in Sessions : \A r \in held[i], s \in held[j] : r[2] = s[2] => i = j /\ r = s
    /\ \A i \in Sessions : down[i] \cap running[i] = {}

\* Before it is sent nobody acts on it, and nobody has.
Unsent ==
    \A c \in Calls :
        /\ call[c].pc # "returned" => call[c].outcome = "none"
        /\ call[c].pc \in {"unmade", "pick", "picked", "send"} =>
              /\ c \notin ran /\ ~Taken(c) /\ reply[c].kind \in {"empty", "closed"}
              /\ \A i \in Sessions : \A m \in said[i] : m.of # c

\* Once it is answered nobody acts on it any more, and the answer is true.
Honest(kind, c) == /\ kind = "CERTAINTY_NOT_EXECUTED" => c \notin ran
                   /\ kind = "ok" => c \in ran
AnswersAreTrue ==
    /\ \A i \in Sessions : \A m \in said[i] : ~Taken(m.of) /\ Honest(m.kind, m.of)
    /\ \A c \in Calls : reply[c].kind \in Answers => ~Taken(c) /\ Honest(reply[c].kind, c)

\* What a call that has returned claims is so, and stays so.
ClaimsAreTrue ==
    \A c \in Calls :
        /\ call[c].outcome = "not_executed" => c \notin ran /\ ~Taken(c)
        /\ call[c].outcome = "ok" => c \in ran

\* The session serves what the call asks for.
Fits(c, i) ==
    IF call[c].kind = "decide"
    THEN Offer(i).decides /\ Offer(i).version = Pinned
    ELSE /\ Offer(i).class = call[c].class
         /\ call[c].kind = "reconcile" => Offer(i).hook
WellPicked ==
    /\ \A i \in Sessions : Offer(i).class = "QUERYABLE" => Offer(i).hook
    /\ \A c \in Calls : call[c].pc \in {"unmade", "pick"} /\ call[c].kind = "reconcile" =>
          call[c].class = "QUERYABLE"
    /\ \A c \in Calls : call[c].pc \in {"picked", "send"} => Fits(c, With(c))
    /\ \A i \in Sessions : \A r \in held[i] : Fits(r[2], i)

GatewayInv ==
    /\ Shapes
    /\ IdsLast /\ IdsGiven /\ IdsAreOwn /\ PendingIsWaiting /\ Placed /\ OneRequest /\ Unsent
    /\ AnswersAreTrue /\ ClaimsAreTrue /\ WellPicked
    /\ AnswersMatch /\ NobodyWaitsOnClosed

----------------------------------------------------------------------------
(***************************************************************************)
(* Lemmas about the operators.                                             *)
(***************************************************************************)

\* There are finitely many calls, so finitely many ids.
LEMMA CallsCount == IsFiniteSet(Calls) /\ Cardinality(Calls) \in Nat
<1>1. IsFiniteSet(Calls)
  BY CallAssumption, FS_Union DEF Calls
<1> QED
  BY <1>1, FS_CardinalityType

\* Members of the sets that the records are made of.
LEMMA Names ==
    /\ {"unmade", "pick", "picked", "send", "wait", "returned"} \subseteq PCs
    /\ {"none", "acking", "reading", "removing", "gone"} \subseteq Pumps
    /\ {"none", "up", "dead"} \subseteq Streams
    /\ "none" \in Ends /\ Outcomes \subseteq Ends
    /\ {"empty", "closed"} \subseteq ReplyKinds /\ Answers \subseteq ReplyKinds
    /\ Sessions \subseteq Places /\ 0 \in Places
    /\ 0 \in Ids /\ 1..Cardinality(Calls) \subseteq Ids
    /\ NoTool \in ToolClasses /\ "decide" \in Kinds
BY CallsCount DEF PCs, Pumps, Streams, Ends, ReplyKinds, Places, Ids, ToolClasses, Kinds

\* A session that has not registered has the empty version.
LEMMA VersionNames == "" \in Versions /\ \A v \in STRING : v \in Versions
BY Zenon DEF Versions

\* What has been said on a stream as messages join it, leave it or are lost.
LEMMA SpokenOf ==
    ASSUME NEW q \in Seq(Message \cup {Goodbye})
    PROVE  /\ Spoken(q) \subseteq Message
           /\ Spoken(<<>>) = {}
           /\ \A m \in Message : Spoken(Append(q, m)) = Spoken(q) \cup {m}
           /\ Spoken(Append(q, Goodbye)) = Spoken(q)
           /\ q # <<>> => Tail(q) \in Seq(Message \cup {Goodbye})
           /\ q # <<>> => Spoken(Tail(q)) \subseteq Spoken(q)
           /\ q # <<>> /\ Head(q) # Goodbye => Head(q) \in Spoken(q)
<1> DEFINE M == Message \cup {Goodbye}
<1>1. Goodbye \notin Message
  BY DEF Goodbye, Message, Answers
<1> HIDE DEF M
<1>2. q \in Seq(M)
  BY DEF M
<1>3. Spoken(q) \subseteq Message
  <2>1. \A k \in DOMAIN q : q[k] \in M
    BY <1>2
  <2> QED
    BY <2>1 DEF Spoken, M
<1>4. Spoken(<<>>) = {}
  BY DEF Spoken
<1>5. ASSUME NEW m \in M
      PROVE  Spoken(Append(q, m)) = (Spoken(q) \cup {m}) \ {Goodbye}
  <2>1. /\ DOMAIN q = 1..Len(q) /\ Len(q) \in Nat
        /\ DOMAIN Append(q, m) = 1..(Len(q) + 1)
        /\ \A k \in 1..Len(q) : Append(q, m)[k] = q[k]
        /\ Append(q, m)[Len(q) + 1] = m
    BY <1>2, <1>5
  <2>2. 1..(Len(q) + 1) = (1..Len(q)) \cup {Len(q) + 1}
    BY <2>1
  <2>3. {Append(q, m)[k] : k \in DOMAIN Append(q, m)} = {q[k] : k \in DOMAIN q} \cup {m}
    BY <2>1, <2>2
  <2> QED
    BY <2>3 DEF Spoken
<1>6. ASSUME NEW m \in Message
      PROVE  Spoken(Append(q, m)) = Spoken(q) \cup {m}
  <2>1. m \in M /\ Goodbye \notin Spoken(q) /\ m # Goodbye
    BY <1>1 DEF Spoken, M
  <2>2. Spoken(Append(q, m)) = (Spoken(q) \cup {m}) \ {Goodbye}
    BY <1>5, <2>1
  <2> QED
    BY <2>1, <2>2
<1>7. Spoken(Append(q, Goodbye)) = Spoken(q)
  BY <1>5 DEF Spoken, M
<1>8. ASSUME q # <<>>
      PROVE  /\ Tail(q) \in Seq(M) /\ Spoken(Tail(q)) \subseteq Spoken(q)
             /\ Head(q) # Goodbye => Head(q) \in Spoken(q)
  <2>1. /\ Tail(q) \in Seq(M) /\ Head(q) = q[1] /\ 1 \in DOMAIN q
        /\ \A k \in DOMAIN Tail(q) : k + 1 \in DOMAIN q /\ Tail(q)[k] = q[k + 1]
    BY <1>2, <1>8
  <2> QED
    BY <2>1 DEF Spoken
<1> QED
  BY <1>3, <1>4, <1>6, <1>7, <1>8 DEF M

\* A sequence that is not empty has a first element.
LEMMA FirstOf ==
    ASSUME NEW S, NEW q \in Seq(S), q # <<>>
    PROVE  1 \in DOMAIN q /\ q[1] \in S
OBVIOUS

\* A registration that is accepted is remembered under a class this build knows,
\* and a tool that can be asked comes with its hook.
LEMMA DeclaredIs ==
    ASSUME NEW i \in Sessions, NEW offer \in Offers[i], RegistrationAccepted(offer)
    PROVE  /\ Declared(offer) \in OfferRecord
           /\ Declared(offer).class = "QUERYABLE" => Declared(offer).hook
<1>1. offer \in [version : STRING, decides : BOOLEAN,
                 tools : Seq([name : STRING, class : STRING, reconcilable : BOOLEAN])]
  BY OfferAssumption DEF Sessions
<1>2. CASE offer.tools = <<>>
  <2>1. offer.version \in Versions /\ offer.decides \in BOOLEAN
    BY <1>1, VersionNames
  <2>2. Declared(offer) = [version |-> offer.version, decides |-> offer.decides,
                           class |-> NoTool, hook |-> FALSE]
    BY <1>2 DEF Declared
  <2>3. NoTool \in ToolClasses /\ NoTool # "QUERYABLE"
    BY DEF ToolClasses, NoTool
  <2> QED
    BY <2>1, <2>2, <2>3 DEF OfferRecord
<1>3. CASE offer.tools # <<>>
  <2>1. /\ 1 \in DOMAIN offer.tools
        /\ offer.tools[1] \in [name : STRING, class : STRING, reconcilable : BOOLEAN]
    <3>1. offer.tools \in Seq([name : STRING, class : STRING, reconcilable : BOOLEAN])
      BY <1>1
    <3> QED
      BY <1>3, <3>1, FirstOf
  <2>2. ToolAccepted(offer.tools[1])
    BY <2>1 DEF RegistrationAccepted
  <2>3. EffectClassFrom(offer.tools[1].class) \in Classes
    BY <2>2 DEF ToolAccepted, EffectClassFrom, Classes, NoClass
  <2>4. /\ Declared(offer).class = EffectClassFrom(offer.tools[1].class)
        /\ Declared(offer).hook = offer.tools[1].reconcilable
    BY <1>3, <2>1 DEF Declared, RemoteTool
  <2>5. EffectClassFrom(offer.tools[1].class) = "QUERYABLE" => offer.tools[1].reconcilable
    BY <2>2 DEF ToolAccepted
  <2>6. /\ Declared(offer).version \in Versions /\ Declared(offer).decides \in BOOLEAN
        /\ Declared(offer).class \in ToolClasses /\ Declared(offer).hook \in BOOLEAN
    BY <1>1, <2>1, <2>3, <2>4, VersionNames DEF Declared, ToolClasses
  <2>7. Declared(offer) = [version |-> Declared(offer).version, decides |-> Declared(offer).decides,
                           class |-> Declared(offer).class, hook |-> Declared(offer).hook]
    BY DEF Declared
  <2>8. Declared(offer) \in OfferRecord
    BY <2>6, <2>7 DEF OfferRecord
  <2> QED
    BY <2>4, <2>5, <2>8
<1> QED
  BY <1>2, <1>3

----------------------------------------------------------------------------
(***************************************************************************)
(* Shapes is preserved, action by action; the bound on the ids comes from  *)
(* IdsLast.                                                                *)
(***************************************************************************)

\* The shapes are the type invariant under shorter names.
LEMMA ShapesAreTypes == Shapes => TypeOK
BY DEF Shapes, TypeOK, SessionRecord, CallRecord, ReplyRecord, Message, Pumps, Streams,
       Versions, ToolClasses, OfferRecord, Ids, PCs, Places, Ends, ReplyKinds

\* A call that is not numbered yet leaves an id for it.
LEMMA IdLeft ==
    ASSUME Shapes, IdsLast, NEW c \in Calls, c \notin Numbered, NEW i \in Sessions
    PROVE  session[i].seq + 1 \in 1..Cardinality(Calls)
<1>1. session[i].seq \in Nat /\ session[i].seq <= Cardinality(Numbered)
  BY CallsCount DEF Shapes, SessionRecord, IdsLast, Ids
<1>2. IsFiniteSet(Numbered) /\ Cardinality(Numbered) \in Nat
  <2>1. Numbered \subseteq Calls
    BY DEF Numbered
  <2> QED
    BY <2>1, CallsCount, FS_Subset, FS_CardinalityType
<1>3. Cardinality(Numbered \cup {c}) = Cardinality(Numbered) + 1
  BY <1>2, FS_AddElement
<1>4. Cardinality(Numbered \cup {c}) <= Cardinality(Calls)
  <2>1. Numbered \cup {c} \subseteq Calls
    BY DEF Numbered
  <2> QED
    BY <2>1, CallsCount, FS_Subset
<1> QED
  BY <1>1, <1>2, <1>3, <1>4, CallsCount

\* What returning does to a call's record and to its reply channel.
LEMMA ReturnsIs ==
    ASSUME Shapes, NEW c \in Calls, NEW o \in Outcomes, Returns(c, o)
    PROVE  /\ call' \in [Calls -> CallRecord]
           /\ reply' \in [Calls -> ReplyRecord]
           /\ \A d \in Calls : d # c => call'[d] = call[d] /\ reply'[d] = reply[d]
           /\ call'[c].pc = "returned" /\ call'[c].outcome = o
           /\ call'[c].kind = call[c].kind /\ call'[c].class = call[c].class
           /\ reply'[c] = NoReply(c)
<1>1. call[c] \in CallRecord
  BY DEF Shapes
<1>2. [call[c] EXCEPT !.pc = "returned", !.session = 0, !.id = 0, !.outcome = o] \in CallRecord
  <2>1. "returned" \in PCs /\ 0 \in Places /\ 0 \in Ids /\ o \in Ends
    BY Names
  <2> QED
    BY <1>1, <2>1 DEF CallRecord
<1>3. NoReply(c) \in ReplyRecord
  BY Names DEF NoReply, ReplyRecord
<1>4. call' \in [Calls -> CallRecord] /\ reply' \in [Calls -> ReplyRecord]
  BY <1>2, <1>3 DEF Returns, Shapes
<1>5. \A d \in Calls : d # c => call'[d] = call[d] /\ reply'[d] = reply[d]
  BY DEF Returns, Shapes
<1>6. /\ call'[c] = [call[c] EXCEPT !.pc = "returned", !.session = 0, !.id = 0, !.outcome = o]
      /\ reply'[c] = NoReply(c)
  BY DEF Returns, Shapes
<1>7. /\ call'[c].pc = "returned" /\ call'[c].outcome = o
      /\ call'[c].kind = call[c].kind /\ call'[c].class = call[c].class
  BY <1>1, <1>6 DEF CallRecord
<1> QED
  BY <1>4, <1>5, <1>6, <1>7

\* What closing a session does to the pending table and the reply channels.
LEMMA CloseIs ==
    ASSUME Shapes, NEW i \in Sessions, Close(i)
    PROVE  /\ pending' \in [Sessions -> SUBSET Requests]
           /\ reply' \in [Calls -> ReplyRecord]
           /\ pending'[i] = {}
           /\ \A j \in Sessions : j # i => pending'[j] = pending[j]
           /\ \A c \in Calls : reply'[c].of = reply[c].of
           /\ \A c \in Calls : reply'[c].kind # reply[c].kind =>
                 reply[c].kind = "empty" /\ reply'[c].kind = "closed"
           /\ \A n \in 1..Cardinality(Calls), c \in Calls :
                 <<n, c>> \in pending[i] => reply'[c].kind # "empty"
           /\ \A c \in Calls : (\A n \in 1..Cardinality(Calls) : <<n, c>> \notin pending[i]) =>
                 reply'[c] = reply[c]
<1>1. /\ pending' \in [Sessions -> SUBSET Requests] /\ pending'[i] = {}
      /\ \A j \in Sessions : j # i => pending'[j] = pending[j]
  BY DEF Close, Shapes
<1>2. \A c \in Calls : [reply[c] EXCEPT !.kind = "closed"] \in ReplyRecord
  BY Names DEF Shapes, ReplyRecord
<1>3. reply' \in [Calls -> ReplyRecord]
  BY <1>2 DEF Close, Shapes
<1>4. \A c \in Calls :
         reply'[c] = IF (\E n \in 1..Cardinality(Calls) : <<n, c>> \in pending[i])
                           /\ reply[c].kind = "empty"
                     THEN [reply[c] EXCEPT !.kind = "closed"] ELSE reply[c]
  BY DEF Close
<1>5. \A c \in Calls : /\ [reply[c] EXCEPT !.kind = "closed"].of = reply[c].of
                       /\ [reply[c] EXCEPT !.kind = "closed"].kind = "closed"
  BY DEF Shapes, ReplyRecord
<1> QED
  BY <1>1, <1>3, <1>4, <1>5

\* The gateway starts empty.
LEMMA ShapesInit == Init => Shapes
<1> SUFFICES ASSUME Init PROVE Shapes
  OBVIOUS
<1>1. NoSession \in SessionRecord
  <2>1. NoOffer \in OfferRecord
    BY Names, VersionNames DEF NoOffer, OfferRecord
  <2> QED
    BY <2>1, Names DEF NoSession, SessionRecord
<1>2. Unmade \in CallRecord
  BY Names DEF Unmade, CallRecord
<1>3. \A c \in Calls : NoReply(c) \in ReplyRecord
  BY Names DEF NoReply, ReplyRecord
<1> QED
  BY <1>1, <1>2, <1>3 DEF Init, Shapes

----------------------------------------------------------------------------
(***************************************************************************)
(* Steps of a session or of its worker that leave the calls alone. None    *)
(* puts a request anywhere it was not, and none changes what a session     *)
(* that has registered declares.                                           *)
(***************************************************************************)

\* The requests and the answers have the shape of requests and answers.
LEMMA HeldShapes ==
    Shapes => /\ held \in [Sessions -> SUBSET Requests]
              /\ said \in [Sessions -> SUBSET Message]
<1> SUFFICES ASSUME Shapes
             PROVE  /\ held \in [Sessions -> SUBSET Requests]
                    /\ said \in [Sessions -> SUBSET Message]
  OBVIOUS
<1>1. \A i \in Sessions : down[i] \cup running[i] \in SUBSET Requests
  BY DEF Shapes
<1>2. \A i \in Sessions : Spoken(up[i]) \in SUBSET Message
  BY SpokenOf DEF Shapes
<1> QED
  BY <1>1, <1>2 DEF held, said

\* A request is an id and a call.
LEMMA RequestIs ==
    ASSUME NEW r \in Requests
    PROVE  r[1] \in 1..Cardinality(Calls) /\ r[2] \in Calls /\ r = <<r[1], r[2]>>
BY DEF Requests

SessionsKeep ==
    \A i \in Sessions :
        /\ session'[i].seq = session[i].seq
        /\ session'[i].pump = "none" => session[i].pump = "none" /\ i \notin listed'
        /\ session[i].pump # "none" => session'[i].offer = session[i].offer
        /\ session'[i].offer.class = "QUERYABLE" => session'[i].offer.hook
        /\ held'[i] \subseteq held[i] /\ said'[i] \subseteq said[i]
        /\ down'[i] \cap running'[i] = {}

\* The invariant's clauses about calls and requests survive such a step.
LEMMA KeepsCalls ==
    ASSUME GatewayInv, SessionsKeep, UNCHANGED <<call, ran>>
    PROVE  IdsLast' /\ IdsGiven' /\ IdsAreOwn' /\ Placed' /\ OneRequest' /\ ClaimsAreTrue'
           /\ WellPicked'
<1> USE DEF GatewayInv
<1>1. \A c \in Calls : call[c].pc \in {"picked", "send", "wait"} => With(c) \in Sessions
  BY DEF Placed
<1>2. IdsLast'
  BY DEF IdsLast, SessionsKeep, Numbered
<1>3. IdsGiven'
  BY <1>1 DEF IdsGiven, SessionsKeep, Waiting, With
<1>4. IdsAreOwn'
  BY <1>1 DEF IdsAreOwn, SessionsKeep, Waiting, With
<1>5. Placed'
  BY <1>1 DEF Placed, SessionsKeep, With
<1>6. OneRequest'
  BY DEF OneRequest, SessionsKeep
<1>7. ClaimsAreTrue'
  BY DEF ClaimsAreTrue, Taken, SessionsKeep
<1>8. WellPicked'
  <2>1. \A i \in Sessions : session[i].pump = "none" => held[i] = {}
    BY DEF Placed
  <2>2. \A c \in Calls : call[c].pc \in {"picked", "send"} => session[With(c)].pump # "none"
    BY DEF Placed
  <2>3. (\A i \in Sessions : Offer(i).class = "QUERYABLE" => Offer(i).hook)'
    BY DEF SessionsKeep, Offer
  <2>4. (\A c \in Calls : call[c].pc \in {"unmade", "pick"} /\ call[c].kind = "reconcile" =>
             call[c].class = "QUERYABLE")'
    BY DEF WellPicked
  <2>5. (\A c \in Calls : call[c].pc \in {"picked", "send"} => Fits(c, With(c)))'
    BY <1>1, <2>2 DEF WellPicked, SessionsKeep, Fits, Offer, With
  <2>6. (\A i \in Sessions : \A r \in held[i] : Fits(r[2], i))'
    BY <2>1 DEF WellPicked, SessionsKeep, Fits, Offer, With
  <2> QED
    BY <2>3, <2>4, <2>5, <2>6 DEF WellPicked
<1> QED
  BY <1>2, <1>3, <1>4, <1>5, <1>6, <1>7, <1>8

\* None of them touches a reply channel either.
LEMMA KeepsReplies ==
    ASSUME GatewayInv, Shapes', SessionsKeep, UNCHANGED <<call, ran, pending, reply>>,
           \A i \in Sessions : session'[i].closed = session[i].closed
    PROVE  GatewayInv'
<1> USE DEF GatewayInv
<1>1. \A c \in Calls : call[c].pc \in {"picked", "send", "wait"} => With(c) \in Sessions
  BY DEF Placed
<1>2. PendingIsWaiting'
  BY <1>1 DEF PendingIsWaiting, Waiting, With, NoReply
<1>3. Unsent'
  BY DEF Unsent, SessionsKeep, Taken
<1>4. AnswersAreTrue'
  BY DEF AnswersAreTrue, SessionsKeep, Taken, Honest
<1>5. AnswersMatch'
  BY DEF AnswersMatch
<1>6. NobodyWaitsOnClosed'
  BY <1>1 DEF NobodyWaitsOnClosed, With
<1> QED
  BY <1>2, <1>3, <1>4, <1>5, <1>6, KeepsCalls

\* Offers that are kept, are kept whole.
LEMMA OfferStands ==
    ASSUME GatewayInv, NEW i \in Sessions, session'[i].offer = session[i].offer
    PROVE  session'[i].offer.class = "QUERYABLE" => session'[i].offer.hook
BY DEF GatewayInv, WellPicked, Offer

\* A worker registers: nothing was meant for its session before.
LEMMA RegisterStep ==
    ASSUME GatewayInv, NEW i \in Sessions, NEW offer \in Offers[i], Register(i, offer)
    PROVE  GatewayInv'
<1> DEFINE s == [session[i] EXCEPT !.pump = "acking", !.offer = Declared(offer), !.stream = "up"]
<1>1. /\ session \in [Sessions -> SessionRecord] /\ session[i] \in SessionRecord
  BY DEF GatewayInv, Shapes
<1>2. Declared(offer) \in OfferRecord
  BY DeclaredIs DEF Register
<1>3. s \in SessionRecord
  BY <1>1, <1>2, Names DEF SessionRecord
<1>4. /\ s.pump = "acking" /\ s.offer = Declared(offer) /\ s.seq = session[i].seq
      /\ s.closed = session[i].closed
  BY <1>1 DEF SessionRecord
<1>5. session' = [session EXCEPT ![i] = s] /\ listed' = listed \cup {i}
      /\ session[i].pump = "none"
  BY DEF Register
<1>6. UNCHANGED <<pending, down, running, up, call, reply, ran>>
  BY DEF Register, wire
<1> HIDE DEF s
<1>7. session' \in [Sessions -> SessionRecord] /\ session'[i] = s
      /\ \A j \in Sessions : j # i => session'[j] = session[j]
  BY <1>1, <1>3, <1>5
<1>8. Shapes'
  BY <1>5, <1>6, <1>7 DEF GatewayInv, Shapes
<1>9. held' = held /\ said' = said
  BY <1>6 DEF held, said
<1>10. \A j \in Sessions : session'[j].offer.class = "QUERYABLE" => session'[j].offer.hook
  <2>1. Declared(offer).class = "QUERYABLE" => Declared(offer).hook
    BY DeclaredIs DEF Register
  <2> QED
    BY <1>4, <1>7, <2>1, OfferStands
<1>11. SessionsKeep
  BY <1>4, <1>5, <1>6, <1>7, <1>9, <1>10 DEF SessionsKeep, GatewayInv, OneRequest, Placed
<1>12. \A j \in Sessions : session'[j].closed = session[j].closed
  BY <1>4, <1>7
<1> QED
  BY <1>6, <1>8, <1>11, <1>12, KeepsReplies

\* The handshake is answered.
LEMMA AcknowledgeStep ==
    ASSUME GatewayInv, NEW i \in Sessions, Acknowledge(i)
    PROVE  GatewayInv'
<1> DEFINE s == [session[i] EXCEPT !.pump = "reading"]
<1>1. /\ session \in [Sessions -> SessionRecord] /\ session[i] \in SessionRecord
  BY DEF GatewayInv, Shapes
<1>2. s \in SessionRecord
  BY <1>1, Names DEF SessionRecord
<1>3. /\ s.pump = "reading" /\ s.offer = session[i].offer /\ s.seq = session[i].seq
      /\ s.closed = session[i].closed
  BY <1>1 DEF SessionRecord
<1>4. session' = [session EXCEPT ![i] = s] /\ session[i].pump = "acking"
  BY DEF Acknowledge
<1>5. UNCHANGED <<listed, pending, down, running, up, call, reply, ran>>
  BY DEF Acknowledge, wire
<1> HIDE DEF s
<1>6. session' \in [Sessions -> SessionRecord] /\ session'[i] = s
      /\ \A j \in Sessions : j # i => session'[j] = session[j]
  BY <1>1, <1>2, <1>4
<1>7. Shapes'
  BY <1>5, <1>6 DEF GatewayInv, Shapes
<1>8. held' = held /\ said' = said
  BY <1>5 DEF held, said
<1>9. \A j \in Sessions : session'[j].offer.class = "QUERYABLE" => session'[j].offer.hook
  BY <1>3, <1>6, OfferStands
<1>10. SessionsKeep
  BY <1>3, <1>4, <1>5, <1>6, <1>8, <1>9 DEF SessionsKeep, GatewayInv, OneRequest, Placed
<1>11. \A j \in Sessions : session'[j].closed = session[j].closed
  BY <1>3, <1>6
<1> QED
  BY <1>5, <1>7, <1>10, <1>11, KeepsReplies

\* A goodbye is not an answer.
LEMMA WorkerStopsStep ==
    ASSUME GatewayInv, NEW i \in Sessions, WorkerStops(i)
    PROVE  GatewayInv'
<1> DEFINE s == [session[i] EXCEPT !.stopping = TRUE]
<1>1. /\ session \in [Sessions -> SessionRecord] /\ session[i] \in SessionRecord
  BY DEF GatewayInv, Shapes
<1>2. s \in SessionRecord
  BY <1>1 DEF SessionRecord
<1>3. /\ s.pump = session[i].pump /\ s.offer = session[i].offer /\ s.seq = session[i].seq
      /\ s.closed = session[i].closed
  BY <1>1 DEF SessionRecord
<1>4. session' = [session EXCEPT ![i] = s] /\ up' = [up EXCEPT ![i] = Append(up[i], Goodbye)]
  BY DEF WorkerStops
<1>5. UNCHANGED <<listed, pending, down, running, call, reply, ran>>
  BY DEF WorkerStops
<1> HIDE DEF s
<1>6. session' \in [Sessions -> SessionRecord] /\ session'[i] = s
      /\ \A j \in Sessions : j # i => session'[j] = session[j]
  BY <1>1, <1>2, <1>4
<1>7. Shapes' /\ \A j \in Sessions : Spoken(up'[j]) = Spoken(up[j])
  <2> DEFINE Q == Seq(Message \cup {Goodbye})
  <2>1. up \in [Sessions -> Q]
    BY DEF GatewayInv, Shapes
  <2>2. Append(up[i], Goodbye) \in Q
    BY <2>1
  <2>3. Spoken(Append(up[i], Goodbye)) = Spoken(up[i])
    BY <2>1, SpokenOf
  <2> HIDE DEF Q
  <2>4. up' \in [Sessions -> Q] /\ up'[i] = Append(up[i], Goodbye)
        /\ \A j \in Sessions : j # i => up'[j] = up[j]
    BY <1>4, <2>1, <2>2
  <2> QED
    BY <1>5, <1>6, <2>3, <2>4 DEF GatewayInv, Shapes, Q
<1>8. held' = held /\ said' = said
  BY <1>5, <1>7 DEF held, said
<1>9. \A j \in Sessions : session'[j].offer.class = "QUERYABLE" => session'[j].offer.hook
  BY <1>3, <1>6, OfferStands
<1>10. SessionsKeep
  BY <1>3, <1>4, <1>5, <1>6, <1>8, <1>9 DEF SessionsKeep, GatewayInv, OneRequest, Placed
<1>11. \A j \in Sessions : session'[j].closed = session[j].closed
  BY <1>3, <1>6
<1> QED
  BY <1>5, <1>7, <1>10, <1>11, KeepsReplies

\* What was on the stream is lost, what ran in the worker may be.
LEMMA StreamDiesStep ==
    ASSUME GatewayInv, NEW i \in Sessions, StreamDies(i)
    PROVE  GatewayInv'
<1> DEFINE s == [session[i] EXCEPT !.stream = "dead", !.stopping = FALSE]
<1>1. /\ session \in [Sessions -> SessionRecord] /\ session[i] \in SessionRecord
  BY DEF GatewayInv, Shapes
<1>2. s \in SessionRecord
  BY <1>1, Names DEF SessionRecord
<1>3. /\ s.pump = session[i].pump /\ s.offer = session[i].offer /\ s.seq = session[i].seq
      /\ s.closed = session[i].closed
  BY <1>1 DEF SessionRecord
<1>4. session' = [session EXCEPT ![i] = s] /\ down' = [down EXCEPT ![i] = {}]
      /\ (running' = running \/ running' = [running EXCEPT ![i] = {}])
  BY DEF StreamDies
<1>5. UNCHANGED <<listed, pending, up, call, reply, ran>>
  BY DEF StreamDies
<1> HIDE DEF s
<1>6. session' \in [Sessions -> SessionRecord] /\ session'[i] = s
      /\ \A j \in Sessions : j # i => session'[j] = session[j]
  BY <1>1, <1>2, <1>4
<1>7. /\ down' \in [Sessions -> SUBSET Requests] /\ running' \in [Sessions -> SUBSET Requests]
      /\ \A j \in Sessions : down'[j] \subseteq down[j] /\ running'[j] \subseteq running[j]
  BY <1>4 DEF GatewayInv, Shapes
<1>8. Shapes'
  BY <1>5, <1>6, <1>7 DEF GatewayInv, Shapes
<1>9. said' = said /\ \A j \in Sessions : held'[j] \subseteq held[j]
  BY <1>5, <1>7 DEF held, said
<1>10. \A j \in Sessions : session'[j].offer.class = "QUERYABLE" => session'[j].offer.hook
  BY <1>3, <1>6, OfferStands
<1>11. SessionsKeep
  BY <1>3, <1>5, <1>6, <1>7, <1>9, <1>10 DEF SessionsKeep, GatewayInv, OneRequest, Placed
<1>12. \A j \in Sessions : session'[j].closed = session[j].closed
  BY <1>3, <1>6
<1> QED
  BY <1>5, <1>8, <1>11, <1>12, KeepsReplies

\* Steps that leave the session's record alone too.
LEMMA SessionStands ==
    ASSUME GatewayInv, UNCHANGED <<session, listed>>,
           \A i \in Sessions : /\ held'[i] \subseteq held[i] /\ said'[i] \subseteq said[i]
                               /\ down'[i] \cap running'[i] = {}
    PROVE  SessionsKeep
BY OfferStands DEF SessionsKeep, GatewayInv, Placed

\* A request moves from the stream to the pool, or is dropped by a worker that
\* stops.
LEMMA WorkerReadsStep ==
    ASSUME GatewayInv, NEW i \in Sessions, NEW r, WorkerReads(i, r)
    PROVE  GatewayInv'
<1>1. /\ r \in down[i] /\ down' = [down EXCEPT ![i] = down[i] \ {r}]
      /\ \/ running' = running
         \/ running' = [running EXCEPT ![i] = running[i] \cup {r}]
  BY DEF WorkerReads
<1>2. UNCHANGED <<session, listed, pending, up, call, reply, ran>>
  BY DEF WorkerReads
<1>3. /\ down' \in [Sessions -> SUBSET Requests] /\ running' \in [Sessions -> SUBSET Requests]
      /\ \A j \in Sessions : j # i => down'[j] = down[j] /\ running'[j] = running[j]
      /\ down'[i] = down[i] \ {r}
      /\ running'[i] \subseteq running[i] \cup {r}
  <2>1. /\ down \in [Sessions -> SUBSET Requests] /\ running \in [Sessions -> SUBSET Requests]
        /\ down[i] \in SUBSET Requests /\ running[i] \in SUBSET Requests /\ r \in Requests
    BY <1>1 DEF GatewayInv, Shapes
  <2>2. /\ down[i] \ {r} \in SUBSET Requests /\ running[i] \cup {r} \in SUBSET Requests
    BY <2>1
  <2>3. /\ down' \in [Sessions -> SUBSET Requests] /\ down'[i] = down[i] \ {r}
        /\ \A j \in Sessions : j # i => down'[j] = down[j]
    BY <1>1, <2>1, <2>2
  <2>4. CASE running' = running
    BY <2>1, <2>3, <2>4
  <2>5. CASE running' = [running EXCEPT ![i] = running[i] \cup {r}]
    BY <2>1, <2>2, <2>3, <2>5
  <2> QED
    BY <1>1, <2>4, <2>5
<1>4. Shapes'
  BY <1>2, <1>3 DEF GatewayInv, Shapes
<1>5. said' = said
  BY <1>2 DEF said
<1>6. \A j \in Sessions : held'[j] \subseteq held[j]
  BY <1>1, <1>3 DEF held
<1>7. \A j \in Sessions : down'[j] \cap running'[j] = {}
  BY <1>3 DEF GatewayInv, OneRequest
<1>8. SessionsKeep
  BY <1>2, <1>5, <1>6, <1>7, SessionStands
<1> QED
  BY <1>2, <1>4, <1>8, KeepsReplies

\* A handler drops its request.
LEMMA HandlerCannotAnswerStep ==
    ASSUME GatewayInv, NEW i \in Sessions, NEW r, HandlerCannotAnswer(i, r)
    PROVE  GatewayInv'
<1>1. running' = [running EXCEPT ![i] = running[i] \ {r}]
      /\ UNCHANGED <<session, listed, pending, down, up, call, reply, ran>>
  BY DEF HandlerCannotAnswer
<1>2. /\ running' \in [Sessions -> SUBSET Requests]
      /\ \A j \in Sessions : running'[j] \subseteq running[j]
  BY <1>1 DEF GatewayInv, Shapes
<1>3. Shapes'
  BY <1>1, <1>2 DEF GatewayInv, Shapes
<1>4. said' = said /\ \A j \in Sessions : held'[j] \subseteq held[j]
  BY <1>1, <1>2 DEF held, said
<1>5. \A j \in Sessions : down'[j] \cap running'[j] = {}
  BY <1>1, <1>2 DEF GatewayInv, OneRequest
<1>6. SessionsKeep
  BY <1>1, <1>4, <1>5, SessionStands
<1> QED
  BY <1>1, <1>3, <1>6, KeepsReplies

----------------------------------------------------------------------------
(***************************************************************************)
(* A session ends, an answer is delivered, a handler acts and answers.     *)
(***************************************************************************)

\* A stream that ends takes what was on it along.
LEMMA EmptiedStream ==
    ASSUME Shapes, NEW i \in Sessions, up' = [up EXCEPT ![i] = <<>>]
    PROVE  /\ up' \in [Sessions -> Seq(Message \cup {Goodbye})]
           /\ \A j \in Sessions : Spoken(up'[j]) \subseteq Spoken(up[j])
<1> DEFINE Q == Seq(Message \cup {Goodbye})
<1>1. up \in [Sessions -> Q] /\ <<>> \in Q
  BY DEF Shapes
<1>2. Spoken(<<>>) = {}
  BY DEF Spoken
<1> HIDE DEF Q
<1>3. up' \in [Sessions -> Q] /\ up'[i] = <<>> /\ \A j \in Sessions : j # i => up'[j] = up[j]
  BY <1>1
<1>4. \A j \in Sessions : Spoken(up'[j]) \subseteq Spoken(up[j])
  BY <1>2, <1>3
<1> QED
  BY <1>3, <1>4 DEF Q

\* Closing wakes whoever is still waiting, and claims nothing.
LEMMA CloseStep ==
    ASSUME GatewayInv, Shapes', SessionsKeep, UNCHANGED <<call, ran>>,
           NEW i \in Sessions, Close(i), session'[i].closed,
           \A j \in Sessions : j # i => session'[j].closed = session[j].closed
    PROVE  GatewayInv'
<1> USE DEF GatewayInv
<1>1. /\ pending'[i] = {}
      /\ \A j \in Sessions : j # i => pending'[j] = pending[j]
      /\ \A c \in Calls : reply'[c].of = reply[c].of
      /\ \A c \in Calls : reply'[c].kind # reply[c].kind =>
            reply[c].kind = "empty" /\ reply'[c].kind = "closed"
      /\ \A n \in 1..Cardinality(Calls), c \in Calls :
            <<n, c>> \in pending[i] => reply'[c].kind # "empty"
      /\ \A c \in Calls : (\A n \in 1..Cardinality(Calls) : <<n, c>> \notin pending[i]) =>
            reply'[c] = reply[c]
  BY CloseIs
<1>2. \A c \in Calls : call[c].pc \in {"picked", "send", "wait"} => With(c) \in Sessions
  BY DEF Placed
<1>3. PendingIsWaiting'
  <2>1. (\A j \in Sessions : \A r \in pending[j] :
            Waiting(r[2]) /\ With(r[2]) = j /\ call[r[2]].id = r[1])'
    BY <1>1 DEF PendingIsWaiting, Waiting, With
  <2>2. (\A c \in Calls : Waiting(c) /\ ~session[With(c)].closed =>
            <<call[c].id, c>> \in pending[With(c)])'
    BY <1>1, <1>2 DEF PendingIsWaiting, Waiting, With
  <2>3. (\A c \in Calls : ~Waiting(c) => reply[c] = NoReply(c))'
    <3> SUFFICES ASSUME NEW c \in Calls, ~Waiting(c) PROVE reply'[c] = NoReply(c)
      BY DEF Waiting, NoReply
    <3>1. \A n \in 1..Cardinality(Calls) : <<n, c>> \notin pending[i]
      BY DEF PendingIsWaiting
    <3> QED
      BY <1>1, <3>1 DEF PendingIsWaiting
  <2> QED
    BY <2>1, <2>2, <2>3 DEF PendingIsWaiting
<1>4. Unsent'
  BY <1>1 DEF Unsent, SessionsKeep, Taken
<1>5. AnswersAreTrue'
  <2>1. "closed" \notin Answers
    BY DEF Answers
  <2> QED
    BY <1>1, <2>1 DEF AnswersAreTrue, SessionsKeep, Taken, Honest
<1>6. AnswersMatch'
  BY <1>1 DEF AnswersMatch
<1>7. NobodyWaitsOnClosed'
  <2> SUFFICES ASSUME NEW c \in Calls, call[c].pc \in {"send", "wait"}, session'[With(c)].closed
               PROVE  reply'[c].kind # "empty"
    BY DEF NobodyWaitsOnClosed, With
  <2>1. CASE session[With(c)].closed
    BY <1>1, <2>1 DEF NobodyWaitsOnClosed
  <2>2. CASE ~session[With(c)].closed
    <3>1. With(c) = i /\ call[c].id \in 1..Cardinality(Calls)
      BY <1>2, <2>2 DEF Placed
    <3>2. <<call[c].id, c>> \in pending[i]
      BY <2>2, <3>1 DEF PendingIsWaiting, Waiting
    <3> QED
      BY <1>1, <3>1, <3>2
  <2> QED
    BY <2>1, <2>2
<1> QED
  BY <1>3, <1>4, <1>5, <1>6, <1>7, KeepsCalls

\* The pump closes the session it read from.
LEMMA PumpEndsStep ==
    ASSUME GatewayInv, NEW i \in Sessions, PumpEnds(i)
    PROVE  GatewayInv'
<1> DEFINE s == [session[i] EXCEPT !.closed = TRUE, !.pump = "removing"]
<1>1. /\ session \in [Sessions -> SessionRecord] /\ session[i] \in SessionRecord
  BY DEF GatewayInv, Shapes
<1>2. s \in SessionRecord
  BY <1>1, Names DEF SessionRecord
<1>3. s.pump = "removing" /\ s.offer = session[i].offer /\ s.seq = session[i].seq /\ s.closed
  BY <1>1 DEF SessionRecord
<1>4. /\ session' = [session EXCEPT ![i] = s] /\ session[i].pump = "reading"
      /\ up' = [up EXCEPT ![i] = <<>>] /\ Close(i)
  BY DEF PumpEnds
<1>5. UNCHANGED <<listed, down, running, call, ran>>
  BY DEF PumpEnds
<1> HIDE DEF s
<1>6. session' \in [Sessions -> SessionRecord] /\ session'[i] = s
      /\ \A j \in Sessions : j # i => session'[j] = session[j]
  BY <1>1, <1>2, <1>4
<1>7. pending' \in [Sessions -> SUBSET Requests] /\ reply' \in [Calls -> ReplyRecord]
  BY <1>4, CloseIs DEF GatewayInv
<1>8. /\ up' \in [Sessions -> Seq(Message \cup {Goodbye})]
      /\ \A j \in Sessions : Spoken(up'[j]) \subseteq Spoken(up[j])
  BY <1>4, EmptiedStream DEF GatewayInv
<1>9. Shapes'
  BY <1>5, <1>6, <1>7, <1>8 DEF GatewayInv, Shapes
<1>10. held' = held /\ \A j \in Sessions : said'[j] \subseteq said[j]
  BY <1>5, <1>8 DEF held, said
<1>11. \A j \in Sessions : session'[j].offer.class = "QUERYABLE" => session'[j].offer.hook
  BY <1>3, <1>6, OfferStands
<1>12. SessionsKeep
  BY <1>3, <1>4, <1>5, <1>6, <1>10, <1>11 DEF SessionsKeep, GatewayInv, OneRequest, Placed
<1> QED
  BY <1>3, <1>4, <1>5, <1>6, <1>9, <1>12, CloseStep

\* Removing a session closes it unless the pump already has.
LEMMA RemoveStep ==
    ASSUME GatewayInv, NEW i \in Sessions, Remove(i)
    PROVE  GatewayInv'
<1> DEFINE s == [session[i] EXCEPT !.closed = TRUE, !.pump = "gone", !.stream = "dead",
                                   !.stopping = FALSE]
<1>1. /\ session \in [Sessions -> SessionRecord] /\ session[i] \in SessionRecord
  BY DEF GatewayInv, Shapes
<1>2. s \in SessionRecord
  BY <1>1, Names DEF SessionRecord
<1>3. s.pump = "gone" /\ s.offer = session[i].offer /\ s.seq = session[i].seq /\ s.closed
  BY <1>1 DEF SessionRecord
<1>4. /\ session' = [session EXCEPT ![i] = s] /\ session[i].pump # "none"
      /\ listed' = listed \ {i} /\ down' = [down EXCEPT ![i] = {}]
      /\ up' = [up EXCEPT ![i] = <<>>]
  BY DEF Remove
<1>5. UNCHANGED <<running, call, ran>>
  BY DEF Remove
<1>6. IF session[i].closed THEN UNCHANGED <<pending, reply>> ELSE Close(i)
  BY DEF Remove
<1> HIDE DEF s
<1>7. session' \in [Sessions -> SessionRecord] /\ session'[i] = s
      /\ \A j \in Sessions : j # i => session'[j] = session[j]
  BY <1>1, <1>2, <1>4
<1>8. pending' \in [Sessions -> SUBSET Requests] /\ reply' \in [Calls -> ReplyRecord]
  BY <1>6, CloseIs DEF GatewayInv, Shapes
<1>9. /\ up' \in [Sessions -> Seq(Message \cup {Goodbye})]
      /\ \A j \in Sessions : Spoken(up'[j]) \subseteq Spoken(up[j])
  BY <1>4, EmptiedStream DEF GatewayInv
<1>10. /\ down' \in [Sessions -> SUBSET Requests]
       /\ \A j \in Sessions : down'[j] \subseteq down[j]
  BY <1>4 DEF GatewayInv, Shapes
<1>11. Shapes'
  BY <1>4, <1>5, <1>7, <1>8, <1>9, <1>10 DEF GatewayInv, Shapes
<1>12. \A j \in Sessions : held'[j] \subseteq held[j] /\ said'[j] \subseteq said[j]
  BY <1>5, <1>9, <1>10 DEF held, said
<1>13. \A j \in Sessions : session'[j].offer.class = "QUERYABLE" => session'[j].offer.hook
  BY <1>3, <1>7, OfferStands
<1>14. SessionsKeep
  BY <1>3, <1>4, <1>5, <1>7, <1>10, <1>12, <1>13 DEF SessionsKeep, GatewayInv, OneRequest, Placed
<1>15. CASE session[i].closed
  <2>1. \A j \in Sessions : session'[j].closed = session[j].closed
    <3>1. session[i].closed \in BOOLEAN /\ s.closed \in BOOLEAN
      BY <1>1, <1>2 DEF SessionRecord
    <3> QED
      BY <1>3, <1>7, <1>15, <3>1
  <2> QED
    BY <1>5, <1>6, <1>11, <1>14, <1>15, <2>1, KeepsReplies
<1>16. CASE ~session[i].closed
  BY <1>3, <1>5, <1>6, <1>7, <1>11, <1>14, <1>16, CloseStep
<1> QED
  BY <1>15, <1>16

\* An answer is delivered to the call it answers: nobody else waits under its id.
LEMMA PumpReadsStep ==
    ASSUME GatewayInv, NEW i \in Sessions, PumpReads(i)
    PROVE  GatewayInv'
<1> USE DEF GatewayInv
<1> DEFINE m == Head(up[i])
<1>1. /\ up[i] # <<>> /\ m # Goodbye /\ up' = [up EXCEPT ![i] = Tail(up[i])]
      /\ UNCHANGED <<session, listed, pending, down, running, call, ran>>
  BY DEF PumpReads
<1>2. \A c \in Calls :
         reply'[c] = IF <<m.id, c>> \in pending[i] /\ reply[c].kind = "empty"
                     THEN [kind |-> m.kind, of |-> m.of] ELSE reply[c]
  BY DEF PumpReads
<1>3. /\ m \in said[i] /\ m \in Message
      /\ up' \in [Sessions -> Seq(Message \cup {Goodbye})]
      /\ \A j \in Sessions : Spoken(up'[j]) \subseteq Spoken(up[j])
  <2> DEFINE Q == Seq(Message \cup {Goodbye})
  <2>1. up \in [Sessions -> Q] /\ up[i] \in Q
    BY DEF Shapes
  <2>2. /\ Spoken(up[i]) \subseteq Message /\ Tail(up[i]) \in Q
        /\ Spoken(Tail(up[i])) \subseteq Spoken(up[i]) /\ m \in Spoken(up[i])
    BY <1>1, <2>1, SpokenOf
  <2> HIDE DEF Q
  <2>3. up' \in [Sessions -> Q] /\ up'[i] = Tail(up[i])
        /\ \A j \in Sessions : j # i => up'[j] = up[j]
    BY <1>1, <2>1, <2>2
  <2> QED
    BY <2>2, <2>3 DEF said, Q
<1> HIDE DEF m
<1>4. /\ m.of \in Calls /\ m.kind \in Answers
      /\ [kind |-> m.kind, of |-> m.of] \in ReplyRecord
  BY <1>3, Names DEF Message, ReplyRecord
<1>5. reply' \in [Calls -> ReplyRecord]
  <2>1. reply' = [c \in Calls |->
            IF <<m.id, c>> \in pending[i] /\ reply[c].kind = "empty"
            THEN [kind |-> m.kind, of |-> m.of] ELSE reply[c]]
    BY DEF PumpReads, m
  <2> QED
    BY <1>4, <2>1 DEF Shapes
<1>6. Shapes'
  BY <1>1, <1>3, <1>5 DEF Shapes
<1>7. held' = held /\ \A j \in Sessions : said'[j] \subseteq said[j]
  BY <1>1, <1>3 DEF held, said
<1>8. SessionsKeep
  BY <1>1, <1>7, SessionStands DEF OneRequest
<1>9. ASSUME NEW c \in Calls, <<m.id, c>> \in pending[i]
      PROVE  /\ Waiting(c) /\ call[c].pc # "send" /\ m.of = c
  <2>1. Waiting(c) /\ With(c) = i /\ call[c].id = m.id
    BY <1>9 DEF PendingIsWaiting
  <2>2. m.of = c
    BY <1>3, <2>1 DEF IdsAreOwn
  <2>3. call[c].pc # "send"
    BY <1>3, <2>2 DEF Unsent
  <2> QED
    BY <2>1, <2>2, <2>3
<1>10. \A c \in Calls :
          \/ reply'[c] = reply[c]
          \/ /\ reply[c].kind = "empty" /\ call[c].pc = "wait" /\ m.of = c
             /\ reply'[c].kind = m.kind /\ reply'[c].of = c
  <2> TAKE c \in Calls
  <2>1. CASE <<m.id, c>> \in pending[i] /\ reply[c].kind = "empty"
    <3>1. reply'[c] = [kind |-> m.kind, of |-> m.of]
      BY <1>2, <2>1
    <3>2. reply'[c].kind = m.kind /\ reply'[c].of = m.of
      BY <3>1
    <3>3. call[c].pc = "wait" /\ m.of = c
      BY <1>9, <2>1 DEF Waiting
    <3> QED
      BY <2>1, <3>2, <3>3
  <2>2. CASE ~(<<m.id, c>> \in pending[i] /\ reply[c].kind = "empty")
    BY <1>2, <2>2
  <2> QED
    BY <2>1, <2>2
<1>11. \A c \in Calls : call[c].pc \in {"picked", "send", "wait"} => With(c) \in Sessions
  BY DEF Placed
<1>12. PendingIsWaiting'
  BY <1>1, <1>10, <1>11 DEF PendingIsWaiting, Waiting, With, NoReply
<1>13. Unsent'
  BY <1>1, <1>7, <1>10 DEF Unsent, Taken
<1>14. AnswersAreTrue'
  BY <1>1, <1>3, <1>7, <1>10 DEF AnswersAreTrue, Taken, Honest
<1>15. AnswersMatch'
  BY <1>10 DEF AnswersMatch
<1>16. NobodyWaitsOnClosed'
  <2>1. "empty" \notin Answers
    BY DEF Answers
  <2> QED
    BY <1>1, <1>4, <1>10, <2>1 DEF NobodyWaitsOnClosed, With
<1> QED
  BY <1>1, <1>6, <1>8, <1>12, <1>13, <1>14, <1>15, <1>16, KeepsCalls

\* A handler acts on a request it holds, about which nothing has been claimed.
LEMMA HandlerActsStep ==
    ASSUME GatewayInv, NEW i \in Sessions, NEW r, HandlerActs(i, r)
    PROVE  GatewayInv'
<1> USE DEF GatewayInv
<1>1. /\ r \in running[i] /\ ran' = ran \cup {r[2]}
      /\ UNCHANGED <<session, listed, pending, down, running, up, call, reply>>
  BY DEF HandlerActs, wire
<1>2. r \in held[i] /\ r[2] \in Calls
  <2>1. r \in Requests
    BY <1>1 DEF Shapes
  <2> QED
    BY <1>1, <2>1, RequestIs DEF held
<1>3. Taken(r[2])
  BY <1>2 DEF Taken
<1>4. Shapes'
  BY <1>1, <1>2 DEF Shapes
<1>5. held' = held /\ said' = said
  BY <1>1 DEF held, said
<1>6. IdsLast' /\ IdsGiven' /\ IdsAreOwn' /\ PendingIsWaiting' /\ Placed' /\ OneRequest'
  <2>1. IdsLast'
    BY <1>1 DEF IdsLast, Numbered
  <2>2. IdsGiven' /\ IdsAreOwn'
    BY <1>1, <1>5 DEF IdsGiven, IdsAreOwn, Waiting, With
  <2>3. PendingIsWaiting' /\ Placed'
    BY <1>1, <1>5 DEF PendingIsWaiting, Placed, Waiting, With, NoReply
  <2>4. OneRequest'
    BY <1>1, <1>5 DEF OneRequest
  <2> QED
    BY <2>1, <2>2, <2>3, <2>4
<1>7. \A c \in Calls : Taken(c)' = Taken(c)
  BY <1>5 DEF Taken
<1>8. Unsent'
  BY <1>1, <1>3, <1>5 DEF Unsent, Taken
<1>9. AnswersAreTrue' /\ ClaimsAreTrue'
  <2>1. \A j \in Sessions : \A x \in said[j] : x.of # r[2]
    BY <1>3 DEF AnswersAreTrue
  <2>2. \A c \in Calls : reply[c].kind \in Answers => c # r[2]
    BY <1>3 DEF AnswersAreTrue
  <2>3. AnswersAreTrue'
    BY <1>1, <1>5, <2>1, <2>2 DEF AnswersAreTrue, Honest, Taken
  <2>4. ClaimsAreTrue'
    BY <1>1, <1>3, <1>5 DEF ClaimsAreTrue, Taken
  <2> QED
    BY <2>3, <2>4
<1>10. WellPicked' /\ AnswersMatch' /\ NobodyWaitsOnClosed'
  BY <1>1, <1>5 DEF WellPicked, Fits, Offer, With, AnswersMatch, NobodyWaitsOnClosed
<1> QED
  BY <1>4, <1>6, <1>8, <1>9, <1>10

\* A handler answers once: the request is then in no other place.
LEMMA HandlerAnswersStep ==
    ASSUME GatewayInv, NEW i \in Sessions, NEW r, NEW kind \in Answers, HandlerAnswers(i, r, kind)
    PROVE  GatewayInv'
<1> USE DEF GatewayInv
<1>1. /\ r \in running[i] /\ kind \in Certainties(r[2])
      /\ running' = [running EXCEPT ![i] = running[i] \ {r}]
      /\ up' = up \/ up' = [up EXCEPT ![i] = Append(up[i], Answer(r, kind))]
  BY DEF HandlerAnswers
<1>2. UNCHANGED <<session, listed, pending, down, call, reply, ran>>
  BY DEF HandlerAnswers
<1>3. r \in held[i] /\ r \in Requests /\ r[2] \in Calls /\ r[1] \in 1..Cardinality(Calls)
  <2>1. r \in Requests
    BY <1>1 DEF Shapes
  <2> QED
    BY <1>1, <2>1, RequestIs DEF held
<1> DEFINE a == Answer(r, kind)
<1>4. a \in Message /\ a.id = r[1] /\ a.of = r[2] /\ a.kind = kind
  BY <1>3, CallsCount DEF Answer, Message
<1>5. /\ up' \in [Sessions -> Seq(Message \cup {Goodbye})]
      /\ \A j \in Sessions : j # i => said'[j] = said[j]
      /\ said'[i] \subseteq said[i] \cup {a}
  <2> DEFINE Q == Seq(Message \cup {Goodbye})
  <2>1. up \in [Sessions -> Q] /\ up[i] \in Q
    BY DEF Shapes
  <2>2. Append(up[i], a) \in Q /\ Spoken(Append(up[i], a)) = Spoken(up[i]) \cup {a}
    BY <1>4, <2>1, SpokenOf
  <2> HIDE DEF Q, a
  <2>3. /\ up' \in [Sessions -> Q] /\ (up'[i] = up[i] \/ up'[i] = Append(up[i], a))
        /\ \A j \in Sessions : j # i => up'[j] = up[j]
    BY <1>1, <2>1, <2>2 DEF a
  <2> QED
    BY <2>2, <2>3 DEF said, Q
<1> HIDE DEF a
<1>6. /\ running' \in [Sessions -> SUBSET Requests] /\ running'[i] = running[i] \ {r}
      /\ \A j \in Sessions : running'[j] \subseteq running[j]
  BY <1>1 DEF Shapes
<1>7. Shapes'
  BY <1>2, <1>5, <1>6 DEF Shapes
<1>8. /\ \A j \in Sessions : held'[j] \subseteq held[j]
      /\ r \notin held'[i]
  BY <1>1, <1>2, <1>6 DEF held, OneRequest
<1>9. Taken(r[2]) /\ ~Taken(r[2])'
  <2>1. Taken(r[2])
    BY <1>3 DEF Taken
  <2>2. ASSUME NEW j \in Sessions, NEW x \in held'[j], x[2] = r[2] PROVE FALSE
    <3>1. x \in held[j]
      BY <1>8
    <3>2. j = i /\ x = r
      BY <1>3, <2>2, <3>1 DEF OneRequest
    <3> QED
      BY <1>8, <3>2
  <2> QED
    BY <2>1, <2>2 DEF Taken
<1>10. \A c \in Calls : ~Taken(c) => ~Taken(c)'
  BY <1>8 DEF Taken
<1>11. \A c \in Calls : call[c].pc \in {"picked", "send", "wait"} => With(c) \in Sessions
  BY DEF Placed
<1>12. IdsLast' /\ PendingIsWaiting' /\ AnswersMatch' /\ NobodyWaitsOnClosed'
  <2>1. IdsLast'
    BY <1>2 DEF IdsLast, Numbered
  <2>2. PendingIsWaiting' /\ AnswersMatch' /\ NobodyWaitsOnClosed'
    BY <1>2 DEF PendingIsWaiting, AnswersMatch, NobodyWaitsOnClosed, Waiting, With, NoReply
  <2> QED
    BY <2>1, <2>2
<1>13. IdsGiven'
  BY <1>2, <1>3, <1>4, <1>5, <1>8, SMTT(60) DEF IdsGiven, Waiting, With
<1>14. IdsAreOwn'
  BY <1>2, <1>3, <1>4, <1>5, <1>8, <1>11 DEF IdsAreOwn, Waiting, With
<1>15. Placed' /\ OneRequest'
  BY <1>2, <1>6, <1>8 DEF Placed, OneRequest, With
<1>16. Unsent'
  <2>1. \A c \in Calls : call[c].pc \in {"unmade", "pick", "picked", "send"} => c # r[2]
    BY <1>9 DEF Unsent
  <2> QED
    BY <1>2, <1>4, <1>5, <1>8, <2>1 DEF Unsent, Taken
<1>17. AnswersAreTrue'
  <2>1. Honest(kind, r[2])
    BY <1>1 DEF Certainties, Honest
  <2>2. (\A j \in Sessions : \A x \in said[j] : ~Taken(x.of) /\ Honest(x.kind, x.of))'
    <3> SUFFICES ASSUME NEW j \in Sessions, NEW x \in said'[j]
                 PROVE  ~Taken(x.of)' /\ Honest(x.kind, x.of)'
      OBVIOUS
    <3>1. CASE x \in said[j]
      BY <1>2, <1>8, <3>1 DEF AnswersAreTrue, Taken, Honest
    <3>2. CASE x = a
      BY <1>2, <1>4, <1>9, <2>1, <3>2 DEF Taken, Honest
    <3> QED
      BY <1>5, <3>1, <3>2
  <2>3. (\A c \in Calls : reply[c].kind \in Answers => ~Taken(c) /\ Honest(reply[c].kind, c))'
    BY <1>2, <1>8 DEF AnswersAreTrue, Taken, Honest
  <2> QED
    BY <2>2, <2>3 DEF AnswersAreTrue
<1>18. ClaimsAreTrue'
  BY <1>2, <1>8 DEF ClaimsAreTrue, Taken
<1>19. WellPicked'
  BY <1>2, <1>8 DEF WellPicked, Fits, Offer, With
<1> QED
  BY <1>7, <1>12, <1>13, <1>14, <1>15, <1>16, <1>17, <1>18, <1>19

----------------------------------------------------------------------------
(***************************************************************************)
(* Steps of a call. Until it is sent nobody holds its request, so what its *)
(* record says can change; when it returns, its request may live on.       *)
(***************************************************************************)

\* Every call takes at most one id.
LEMMA NumberedGrows ==
    ASSUME GatewayInv, Shapes', Numbered \subseteq Numbered', session' = session
    PROVE  IdsLast'
<1>1. Numbered' \subseteq Calls
  BY DEF Numbered
<1>2. IsFiniteSet(Numbered') /\ Cardinality(Numbered') \in Nat
  BY <1>1, CallsCount, FS_Subset, FS_CardinalityType
<1>3. Cardinality(Numbered) <= Cardinality(Numbered') /\ Cardinality(Numbered) \in Nat
  BY <1>2, FS_Subset, FS_CardinalityType
<1>4. \A i \in Sessions : session'[i].seq = session[i].seq /\ session[i].seq \in Nat
  BY CallsCount DEF GatewayInv, Shapes, SessionRecord, Ids
<1> QED
  BY <1>2, <1>3, <1>4 DEF IdsLast, GatewayInv

\* A call that is given an id, or refused one, is one more.
LEMMA NumberedMore ==
    ASSUME GatewayInv, NEW c \in Calls, c \notin Numbered, Numbered' = Numbered \cup {c},
           \A i \in Sessions : session'[i].seq \in {session[i].seq, session[i].seq + 1}
    PROVE  IdsLast'
<1>1. Numbered \subseteq Calls
  BY DEF Numbered
<1>2. IsFiniteSet(Numbered) /\ Cardinality(Numbered) \in Nat
  BY <1>1, CallsCount, FS_Subset, FS_CardinalityType
<1>3. Cardinality(Numbered') = Cardinality(Numbered) + 1
  BY <1>2, FS_AddElement
<1>4. \A i \in Sessions : session[i].seq \in Nat
  BY CallsCount DEF GatewayInv, Shapes, SessionRecord, Ids
<1> QED
  BY <1>2, <1>3, <1>4 DEF IdsLast, GatewayInv

\* A call that has not begun chooses its way, or ends before it has one.
LEMMA CallMoves ==
    ASSUME GatewayInv, NEW c \in Calls, NEW x \in CallRecord,
           call[c].pc \in {"unmade", "pick"}, call' = [call EXCEPT ![c] = x],
           UNCHANGED <<session, listed, pending, down, running, up, reply, ran>>,
           x.pc \in {"pick", "picked", "returned"},
           x.outcome = IF x.pc = "returned" THEN "unknown" ELSE "none",
           x.pc = "pick" /\ x.kind = "reconcile" => x.class = "QUERYABLE",
           x.pc = "picked" =>
               /\ x.session \in Sessions /\ session[x.session].pump # "none"
               /\ Fits(c, x.session)'
    PROVE  GatewayInv'
<1> USE DEF GatewayInv
<1>1. /\ call' \in [Calls -> CallRecord] /\ call'[c] = x
      /\ \A d \in Calls : d # c => call'[d] = call[d]
  BY DEF Shapes
<1>2. Shapes'
  BY <1>1 DEF Shapes
<1>3. held' = held /\ said' = said
  BY DEF held, said
<1>4. IdsLast'
  <2>1. Numbered \subseteq Numbered'
    BY <1>1 DEF Numbered
  <2> QED
    BY <1>2, <2>1, NumberedGrows
<1>5. /\ ~Waiting(c) /\ ~Waiting(c)'
      /\ \A d \in Calls : Waiting(d)' = Waiting(d)
  BY <1>1 DEF Waiting
<1>6. \A d \in Calls : Waiting(d) => d # c /\ call'[d] = call[d]
  BY <1>1, <1>5
<1>7. IdsGiven' /\ IdsAreOwn'
  BY <1>3, <1>5, <1>6 DEF IdsGiven, IdsAreOwn, With
<1>8. PendingIsWaiting'
  <2>1. \A i \in Sessions : \A r \in pending[i] : r[2] \in Calls
    BY RequestIs DEF Shapes
  <2> QED
    BY <1>5, <1>6, <2>1 DEF PendingIsWaiting, With, NoReply
<1>9. Placed'
  BY <1>1, <1>3 DEF Placed, With
<1>10. OneRequest' /\ AnswersMatch'
  BY <1>3 DEF OneRequest, AnswersMatch
<1>11. c \notin ran /\ ~Taken(c) /\ reply[c].kind \in {"empty", "closed"}
       /\ \A i \in Sessions : \A m \in said[i] : m.of # c
  BY DEF Unsent
<1>12. Unsent'
  BY <1>1, <1>3, <1>11 DEF Unsent, Taken
<1>13. AnswersAreTrue'
  BY <1>3 DEF AnswersAreTrue, Taken, Honest
<1>14. ClaimsAreTrue'
  BY <1>1, <1>3 DEF ClaimsAreTrue, Taken
<1>15. WellPicked'
  <2>1. \A i \in Sessions : \A r \in held[i] : r[2] \in Calls /\ r[2] # c
    <3>1. \A i \in Sessions : \A r \in held[i] : r[2] \in Calls
      BY HeldShapes, RequestIs
    <3> QED
      BY <1>11, <3>1 DEF Taken
  <2>2. (\A i \in Sessions : \A r \in held[i] : Fits(r[2], i))'
    BY <1>1, <1>3, <2>1 DEF WellPicked, Fits, Offer
  <2>3. (\A d \in Calls : call[d].pc \in {"picked", "send"} => Fits(d, With(d)))'
    BY <1>1 DEF WellPicked, Fits, Offer, With
  <2>4. (\A d \in Calls : call[d].pc \in {"unmade", "pick"} /\ call[d].kind = "reconcile" =>
            call[d].class = "QUERYABLE")'
    BY <1>1 DEF WellPicked
  <2> QED
    BY <2>2, <2>3, <2>4 DEF WellPicked, Offer
<1>16. NobodyWaitsOnClosed'
  BY <1>6, <1>5 DEF NobodyWaitsOnClosed, Waiting, With
<1> QED
  BY <1>2, <1>4, <1>7, <1>8, <1>9, <1>10, <1>12, <1>13, <1>14, <1>15, <1>16

\* A call returns, with a claim that is true.
LEMMA ReturnStep ==
    ASSUME GatewayInv, NEW c \in Calls, NEW o \in Outcomes, Returns(c, o),
           UNCHANGED <<listed, down, running, up, ran>>,
           session' \in [Sessions -> SessionRecord], IdsLast',
           \A i \in Sessions : /\ session'[i].pump = session[i].pump
                               /\ session'[i].offer = session[i].offer
                               /\ session'[i].closed = session[i].closed
                               /\ session[i].seq <= session'[i].seq,
           pending' \in [Sessions -> SUBSET Requests],
           \A i \in Sessions : /\ \A r \in pending'[i] : r \in pending[i] /\ r[2] # c
                               /\ \A r \in pending[i] : r[2] # c => r \in pending'[i],
           o = "not_executed" => c \notin ran /\ ~Taken(c),
           o = "ok" => c \in ran
    PROVE  GatewayInv'
<1> USE DEF GatewayInv
<1>1. /\ call' \in [Calls -> CallRecord] /\ reply' \in [Calls -> ReplyRecord]
      /\ \A d \in Calls : d # c => call'[d] = call[d] /\ reply'[d] = reply[d]
      /\ call'[c].pc = "returned" /\ call'[c].outcome = o
      /\ call'[c].kind = call[c].kind /\ call'[c].class = call[c].class
      /\ reply'[c] = NoReply(c)
  BY ReturnsIs
<1>2. Shapes'
  BY <1>1 DEF Shapes
<1>3. held' = held /\ said' = said
  BY DEF held, said
<1>4. \A d \in Calls : Waiting(d)' => d # c /\ Waiting(d)
                                      /\ call'[d] = call[d] /\ reply'[d] = reply[d]
  BY <1>1 DEF Waiting
<1>5. \A d \in Calls : Waiting(d) => With(d) \in Sessions
  BY DEF Placed, Waiting
<1>6. IdsGiven'
  <2>1. \A i \in Sessions : session[i].seq \in Nat /\ session'[i].seq \in Nat
    BY CallsCount DEF Shapes, SessionRecord, Ids
  <2>2. \A d \in Calls : call[d].id \in Nat
    BY CallsCount DEF Shapes, CallRecord, Ids
  <2>3. \A i \in Sessions : \A r \in held[i] : r[1] \in Nat
    BY HeldShapes, RequestIs, CallsCount
  <2>4. \A i \in Sessions : \A m \in said[i] : m.id \in Nat
    BY HeldShapes DEF Message
  <2>5. (\A d \in Calls : Waiting(d) => call[d].id <= session[With(d)].seq)'
    <3> SUFFICES ASSUME NEW d \in Calls, Waiting(d)'
                 PROVE  call'[d].id <= session'[call'[d].session].seq
      BY DEF With
    <3>1. call[d].id <= session[With(d)].seq /\ With(d) \in Sessions /\ call'[d] = call[d]
      BY <1>4, <1>5 DEF IdsGiven
    <3> QED
      BY <2>1, <2>2, <3>1 DEF With
  <2>6. (\A i \in Sessions : \A r \in held[i] : r[1] <= session[i].seq)'
    BY <1>3, <2>1, <2>3 DEF IdsGiven
  <2>7. (\A i \in Sessions : \A m \in said[i] : m.id <= session[i].seq)'
    BY <1>3, <2>1, <2>4 DEF IdsGiven
  <2> QED
    BY <2>5, <2>6, <2>7 DEF IdsGiven
<1>7. IdsAreOwn'
  BY <1>3, <1>4 DEF IdsAreOwn, With
<1>8. PendingIsWaiting'
  <2>1. (\A i \in Sessions : \A r \in pending[i] :
            Waiting(r[2]) /\ With(r[2]) = i /\ call[r[2]].id = r[1])'
    <3> SUFFICES ASSUME NEW i \in Sessions, NEW r \in pending'[i]
                 PROVE  Waiting(r[2])' /\ With(r[2])' = i /\ call'[r[2]].id = r[1]
      OBVIOUS
    <3>1. r \in pending[i] /\ r[2] # c /\ r[2] \in Calls
      BY RequestIs
    <3> QED
      BY <1>1, <3>1 DEF PendingIsWaiting, Waiting, With
  <2>2. (\A d \in Calls : Waiting(d) /\ ~session[With(d)].closed =>
            <<call[d].id, d>> \in pending[With(d)])'
    <3> SUFFICES ASSUME NEW d \in Calls, Waiting(d)', ~session'[call'[d].session].closed
                 PROVE  <<call'[d].id, d>> \in pending'[call'[d].session]
      BY DEF With
    <3>1. Waiting(d) /\ d # c /\ call'[d] = call[d] /\ With(d) \in Sessions
      BY <1>4, <1>5
    <3>2. <<call[d].id, d>> \in pending[With(d)]
      BY <3>1 DEF PendingIsWaiting, With
    <3> QED
      BY <3>1, <3>2 DEF With
  <2>3. (\A d \in Calls : ~Waiting(d) => reply[d] = NoReply(d))'
    BY <1>1 DEF PendingIsWaiting, Waiting, NoReply
  <2> QED
    BY <2>1, <2>2, <2>3 DEF PendingIsWaiting
<1>9. Placed'
  BY <1>1, <1>3 DEF Placed, With
<1>10. OneRequest'
  BY <1>3 DEF OneRequest
<1>11. Unsent'
  BY <1>1, <1>3 DEF Unsent, Taken
<1>12. AnswersAreTrue'
  <2>1. reply'[c].kind \notin Answers
    BY <1>1 DEF NoReply, Answers
  <2> QED
    BY <1>1, <1>3, <2>1 DEF AnswersAreTrue, Taken, Honest
<1>13. ClaimsAreTrue'
  BY <1>1, <1>3 DEF ClaimsAreTrue, Taken
<1>14. AnswersMatch'
  BY <1>1 DEF AnswersMatch, NoReply
<1>15. NobodyWaitsOnClosed'
  BY <1>4, <1>5 DEF NobodyWaitsOnClosed, Waiting, With
<1>16. WellPicked'
  <2>1. \A i \in Sessions : \A r \in held[i] : r[2] \in Calls
    BY HeldShapes, RequestIs
  <2>2. \A d \in Calls : call'[d].kind = call[d].kind /\ call'[d].class = call[d].class
    BY <1>1
  <2>3. (\A i \in Sessions : \A r \in held[i] : Fits(r[2], i))'
    BY <1>3, <2>1, <2>2 DEF WellPicked, Fits, Offer
  <2>4. \A d \in Calls : call[d].pc \in {"picked", "send"} => With(d) \in Sessions
    BY DEF Placed
  <2>5. (\A d \in Calls : call[d].pc \in {"picked", "send"} => Fits(d, With(d)))'
    BY <1>1, <2>4 DEF WellPicked, Fits, Offer, With
  <2>6. (\A d \in Calls : call[d].pc \in {"unmade", "pick"} /\ call[d].kind = "reconcile" =>
            call[d].class = "QUERYABLE")'
    BY <1>1 DEF WellPicked
  <2>7. (\A i \in Sessions : Offer(i).class = "QUERYABLE" => Offer(i).hook)'
    BY DEF WellPicked, Offer
  <2> QED
    BY <2>3, <2>5, <2>6, <2>7 DEF WellPicked
<1> QED
  BY <1>2, <1>6, <1>7, <1>8, <1>9, <1>10, <1>11, <1>12, <1>13, <1>14, <1>15, <1>16

\* A call that does not wait has no entry to forget; one that does has one.
LEMMA NothingPending ==
    ASSUME GatewayInv, NEW c \in Calls, ~Waiting(c)
    PROVE  \A i \in Sessions : \A r \in pending[i] : r[2] # c
BY DEF GatewayInv, PendingIsWaiting

\* Forgetting a call removes its one entry and no other.
LEMMA Forgotten ==
    ASSUME GatewayInv, NEW c \in Calls, Waiting(c), Forget(c)
    PROVE  /\ pending' \in [Sessions -> SUBSET Requests]
           /\ \A i \in Sessions : /\ \A r \in pending'[i] : r \in pending[i] /\ r[2] # c
                                  /\ \A r \in pending[i] : r[2] # c => r \in pending'[i]
<1> DEFINE t == <<call[c].id, c>>
<1>1. With(c) \in Sessions
  BY DEF GatewayInv, Placed, Waiting
<1>2. /\ pending' \in [Sessions -> SUBSET Requests]
      /\ pending'[With(c)] = pending[With(c)] \ {t}
      /\ \A i \in Sessions : i # With(c) => pending'[i] = pending[i]
  BY <1>1 DEF Forget, GatewayInv, Shapes
<1>3. \A i \in Sessions : \A r \in pending[i] : r[2] = c => i = With(c) /\ r = t
  <2> TAKE i \in Sessions
  <2> TAKE r \in pending[i]
  <2>1. r \in Requests
    BY DEF GatewayInv, Shapes
  <2>2. r = <<r[1], r[2]>>
    BY <2>1, RequestIs
  <2> QED
    BY <2>2 DEF GatewayInv, PendingIsWaiting
<1>4. t[2] = c
  OBVIOUS
<1> HIDE DEF t
<1> QED
  BY <1>1, <1>2, <1>3, <1>4

\* The engine asks for a decision.
LEMMA MakeDecideStep ==
    ASSUME GatewayInv, NEW c \in Calls, MakeDecide(c)
    PROVE  GatewayInv'
<1> DEFINE x == [call[c] EXCEPT !.pc = "pick"]
<1>1. call[c] \in CallRecord
  BY DEF GatewayInv, Shapes
<1>2. x \in CallRecord
  BY <1>1, Names DEF CallRecord
<1>3. /\ x.pc = "pick" /\ x.kind = call[c].kind /\ x.class = call[c].class
      /\ x.outcome = call[c].outcome
  BY <1>1 DEF CallRecord
<1>4. call[c].pc = "unmade" /\ call' = [call EXCEPT ![c] = x]
      /\ UNCHANGED <<session, listed, pending, down, running, up, reply, ran>>
  BY DEF MakeDecide, At, wire
<1>5. call[c].outcome = "none" /\ (call[c].kind = "reconcile" => call[c].class = "QUERYABLE")
  BY <1>4 DEF GatewayInv, Unsent, WellPicked
<1> HIDE DEF x
<1> QED
  BY <1>2, <1>3, <1>4, <1>5, CallMoves

\* Offering sessions have registered.
LEMMA OfferingIs ==
    ASSUME GatewayInv, NEW i \in listed
    PROVE  i \in Sessions /\ session[i].pump # "none" /\ Offer(i).class \in ToolClasses
<1>1. i \in Sessions /\ session[i] \in SessionRecord
  BY DEF GatewayInv, Shapes
<1>2. session[i].offer \in OfferRecord
  BY <1>1 DEF SessionRecord
<1> QED
  BY <1>1, <1>2 DEF GatewayInv, Placed, Offer, OfferRecord

\* A tool is looked up: the call takes the class everyone agrees on, or ends.
LEMMA LookupToolStep ==
    ASSUME GatewayInv, NEW c \in Calls, NEW kind \in {"execute", "reconcile"}, LookupTool(c, kind)
    PROVE  GatewayInv'
<1> DEFINE class == Offer(CHOOSE i \in Offering : TRUE).class
           x == [call[c] EXCEPT !.pc = "pick", !.kind = kind, !.class = class]
           y == [call[c] EXCEPT !.pc = "returned", !.kind = kind, !.outcome = "unknown"]
<1>1. call[c] \in CallRecord
  BY DEF GatewayInv, Shapes
<1>2. call[c].pc = "unmade" /\ UNCHANGED <<session, listed, pending, down, running, up, reply, ran>>
  BY DEF LookupTool, At, wire
<1>3. kind \in Kinds /\ "unknown" \in Outcomes
  BY DEF Kinds, Outcomes
<1>4. CASE /\ Offering # {} /\ (kind = "reconcile" => class = "QUERYABLE")
           /\ call' = [call EXCEPT ![c] = x]
  <2>1. class \in ToolClasses
    <3>1. (CHOOSE i \in Offering : TRUE) \in listed
      BY <1>4 DEF Offering
    <3> QED
      BY <3>1, OfferingIs
  <2> HIDE DEF class
  <2>2. x \in CallRecord
    BY <1>1, <1>3, <2>1, Names DEF CallRecord
  <2>3. x.pc = "pick" /\ x.kind = kind /\ x.class = class /\ x.outcome = call[c].outcome
    BY <1>1 DEF CallRecord
  <2>4. call[c].outcome = "none"
    BY <1>2 DEF GatewayInv, Unsent
  <2> HIDE DEF x
  <2> QED
    BY <1>2, <1>4, <2>2, <2>3, <2>4, CallMoves
<1>5. CASE call' = [call EXCEPT ![c] = y]
  <2>1. y \in CallRecord
    BY <1>1, <1>3, Names DEF CallRecord
  <2>2. y.pc = "returned" /\ y.outcome = "unknown"
    BY <1>1 DEF CallRecord
  <2> HIDE DEF y
  <2> QED
    BY <1>2, <1>5, <2>1, <2>2, CallMoves
<1> QED
  BY <1>4, <1>5 DEF LookupTool

\* A call is given to a session that serves it.
LEMMA PickStep ==
    ASSUME GatewayInv, NEW c \in Calls, NEW i \in listed, call[c].pc = "pick", Fits(c, i),
           call' = [call EXCEPT ![c] = [call[c] EXCEPT !.pc = "picked", !.session = i]],
           UNCHANGED <<session, listed, pending, down, running, up, reply, ran>>
    PROVE  GatewayInv'
<1> DEFINE x == [call[c] EXCEPT !.pc = "picked", !.session = i]
<1>1. call \in [Calls -> CallRecord] /\ call[c] \in CallRecord
  BY DEF GatewayInv, Shapes
<1>2. i \in Sessions /\ session[i].pump # "none"
  BY OfferingIs
<1>3. x \in CallRecord
  BY <1>1, <1>2, Names DEF CallRecord
<1>4. /\ x.pc = "picked" /\ x.session = i /\ x.kind = call[c].kind /\ x.class = call[c].class
      /\ x.outcome = call[c].outcome
  BY <1>1 DEF CallRecord
<1>5. call[c].outcome = "none"
  BY DEF GatewayInv, Unsent
<1>6. call' = [call EXCEPT ![c] = x]
  OBVIOUS
<1> HIDE DEF x
<1>7. Fits(c, i)'
  BY <1>1, <1>4, <1>6 DEF Fits, Offer
<1>8. /\ x.pc \in {"pick", "picked", "returned"} /\ x.pc # "pick"
      /\ x.outcome = IF x.pc = "returned" THEN "unknown" ELSE "none"
  BY <1>4, <1>5
<1>9. x.pc = "picked" => x.session \in Sessions /\ session[x.session].pump # "none"
  BY <1>2, <1>4
<1> QED
  BY <1>3, <1>4, <1>6, <1>7, <1>8, <1>9, CallMoves, ZenonT(60)

\* A call that returns before it has begun.
LEMMA EarlyReturn ==
    ASSUME GatewayInv, NEW c \in Calls, NEW o \in {"unavailable", "unknown"}, Returns(c, o),
           call[c].pc = "pick", UNCHANGED <<session, listed, pending, down, running, up, ran>>
    PROVE  GatewayInv'
<1>1. o \in Outcomes /\ o # "not_executed" /\ o # "ok"
  BY DEF Outcomes
<1>2. /\ call' \in [Calls -> CallRecord] /\ reply' \in [Calls -> ReplyRecord]
      /\ \A d \in Calls : d # c => call'[d] = call[d]
      /\ call'[c].pc = "returned"
  BY <1>1, ReturnsIs DEF GatewayInv
<1>3. Shapes'
  BY <1>2 DEF GatewayInv, Shapes
<1>4. IdsLast'
  <2>1. Numbered \subseteq Numbered'
    BY <1>2 DEF Numbered
  <2> QED
    BY <1>3, <2>1, NumberedGrows
<1>5. \A i \in Sessions : \A r \in pending[i] : r[2] # c
  BY NothingPending DEF Waiting
<1>6. \A i \in Sessions : session[i].seq \in Nat
  BY CallsCount DEF GatewayInv, Shapes, SessionRecord, Ids
<1>7. session' \in [Sessions -> SessionRecord] /\ pending' \in [Sessions -> SUBSET Requests]
  BY DEF GatewayInv, Shapes
<1> QED
  BY <1>1, <1>4, <1>5, <1>6, <1>7, ReturnStep

\* A decision goes to a listed session of the pinned version, or to nobody.
LEMMA PickDeciderStep ==
    ASSUME GatewayInv, NEW c \in Calls, PickDecider(c)
    PROVE  GatewayInv'
<1>1. call[c].pc = "pick" /\ call[c].kind = "decide"
      /\ UNCHANGED <<session, listed, pending, down, running, up, ran>>
  BY DEF PickDecider, At, wire
<1>2. CASE Returns(c, "unavailable")
  BY <1>1, <1>2, EarlyReturn
<1>3. CASE \E i \in {j \in listed : Offer(j).decides /\ Offer(j).version = Pinned} :
              /\ call' = [call EXCEPT ![c] = [@ EXCEPT !.pc = "picked", !.session = i]]
              /\ UNCHANGED reply
  <2>1. PICK i \in listed :
           /\ Offer(i).decides /\ Offer(i).version = Pinned
           /\ call' = [call EXCEPT ![c] = [call[c] EXCEPT !.pc = "picked", !.session = i]]
           /\ UNCHANGED reply
    BY <1>3
  <2>2. Fits(c, i)
    BY <1>1, <2>1 DEF Fits
  <2> QED
    BY <1>1, <2>1, <2>2, PickStep
<1> QED
  BY <1>2, <1>3 DEF PickDecider

\* The class was checked again, so the session still declares what Lookup saw.
LEMMA PickForToolStep ==
    ASSUME GatewayInv, NEW c \in Calls, PickForTool(c)
    PROVE  GatewayInv'
<1>1. call[c].pc = "pick" /\ call[c].kind # "decide"
      /\ UNCHANGED <<session, listed, pending, down, running, up, ran>>
  BY DEF PickForTool, At, wire
<1>2. CASE Returns(c, "unknown")
  BY <1>1, <1>2, EarlyReturn
<1>3. CASE /\ ClassUnchanged(c) /\ UNCHANGED reply
           /\ \E i \in Offering :
                 call' = [call EXCEPT ![c] = [@ EXCEPT !.pc = "picked", !.session = i]]
  <2>1. PICK i \in Offering :
           call' = [call EXCEPT ![c] = [call[c] EXCEPT !.pc = "picked", !.session = i]]
    BY <1>3
  <2>2. i \in listed /\ Offer(i).class = call[c].class
    BY <1>3, <2>1 DEF ClassUnchanged, Offering
  <2>3. call[c].kind = "reconcile" => Offer(i).hook
    <3>1. call[c].kind = "reconcile" => call[c].class = "QUERYABLE"
      BY <1>1 DEF GatewayInv, WellPicked
    <3>2. i \in Sessions
      BY <2>2, OfferingIs
    <3> QED
      BY <2>2, <3>1, <3>2 DEF GatewayInv, WellPicked
  <2>4. Fits(c, i)
    BY <1>1, <2>2, <2>3 DEF Fits
  <2> QED
    BY <1>1, <1>3, <2>1, <2>2, <2>4, PickStep
<1> QED
  BY <1>2, <1>3 DEF PickForTool

\* The id a call is given is above every id its session has given out.
LEMMA BeginCallStep ==
    ASSUME GatewayInv, NEW c \in Calls, BeginCall(c)
    PROVE  GatewayInv'
<1> USE DEF GatewayInv
<1> DEFINE i == With(c)
           n == session[i].seq + 1
           s == [session[i] EXCEPT !.seq = n]
           x == [call[c] EXCEPT !.pc = "send", !.id = n]
<1>1. /\ call[c].pc = "picked" /\ session' = [session EXCEPT ![i] = s]
      /\ UNCHANGED <<listed, down, running, up, ran>>
      /\ \/ session[i].closed /\ Returns(c, "unknown") /\ UNCHANGED pending
         \/ /\ ~session[i].closed /\ pending' = [pending EXCEPT ![i] = pending[i] \cup {<<n, c>>}]
            /\ call' = [call EXCEPT ![c] = x]
            /\ UNCHANGED reply
  BY DEF BeginCall, At, wire, NextCallID
<1>2. i \in Sessions /\ session[i].pump # "none"
  BY <1>1 DEF Placed
<1>3. /\ session \in [Sessions -> SessionRecord] /\ session[i] \in SessionRecord
      /\ call \in [Calls -> CallRecord] /\ call[c] \in CallRecord
  BY <1>2 DEF Shapes
<1>4. n \in 1..Cardinality(Calls) /\ n \in Ids /\ session[i].seq \in Nat
  <2>1. c \notin Numbered
    BY <1>1 DEF Numbered
  <2>2. session[i].seq \in Nat
    BY <1>3, CallsCount DEF SessionRecord, Ids
  <2>3. n \in 1..Cardinality(Calls)
    BY <1>2, <2>1, IdLeft
  <2> QED
    BY <2>2, <2>3, Names
<1>5. s \in SessionRecord /\ s.seq = n
      /\ s.pump = session[i].pump /\ s.offer = session[i].offer /\ s.closed = session[i].closed
  <2> HIDE DEF n, i
  <2> QED
    BY <1>3, <1>4 DEF SessionRecord
<1>6. x \in CallRecord /\ x.pc = "send" /\ x.id = n /\ x.session = i
      /\ x.kind = call[c].kind /\ x.class = call[c].class /\ x.outcome = call[c].outcome
  <2>1. i = call[c].session
    BY DEF With
  <2> HIDE DEF n, i
  <2> QED
    BY <1>3, <1>4, <2>1, Names DEF CallRecord
<1> HIDE DEF s, x
<1>7. /\ session' \in [Sessions -> SessionRecord] /\ session'[i] = s
      /\ \A j \in Sessions : j # i => session'[j] = session[j]
  BY <1>1, <1>2, <1>3, <1>5
<1>8. \A j \in Sessions : /\ session'[j].pump = session[j].pump
                          /\ session'[j].offer = session[j].offer
                          /\ session'[j].closed = session[j].closed
  BY <1>5, <1>7
<1>9. \A j \in Sessions : /\ session[j].seq \in Nat /\ session[j].seq <= session'[j].seq
                          /\ session'[j].seq \in {session[j].seq, session[j].seq + 1}
  <2>1. \A j \in Sessions : session[j].seq \in Nat
    BY CallsCount DEF Shapes, SessionRecord, Ids
  <2> QED
    BY <1>2, <1>5, <1>7, <2>1
<1>10. held' = held /\ said' = said
  BY <1>1 DEF held, said
<1>11. CASE session[i].closed /\ Returns(c, "unknown") /\ UNCHANGED pending
  <2>1. "unknown" \in Outcomes
    BY DEF Outcomes
  <2>2. /\ \A d \in Calls : d # c => call'[d] = call[d]
        /\ call'[c].pc = "returned"
    BY <1>11, <2>1, ReturnsIs
  <2>3. c \notin Numbered /\ Numbered' = Numbered \cup {c}
    BY <1>1, <2>2 DEF Numbered
  <2>4. IdsLast'
    BY <1>9, <2>3, NumberedMore
  <2>5. \A j \in Sessions : \A r \in pending[j] : r[2] # c
    BY <1>1, NothingPending DEF Waiting
  <2>6. pending' \in [Sessions -> SUBSET Requests]
    BY <1>11 DEF Shapes
  <2> QED
    BY <1>1, <1>7, <1>8, <1>9, <1>11, <2>1, <2>4, <2>5, <2>6, ReturnStep
<1>12. CASE /\ ~session[i].closed /\ pending' = [pending EXCEPT ![i] = pending[i] \cup {<<n, c>>}]
            /\ call' = [call EXCEPT ![c] = x]
            /\ UNCHANGED reply
  <2>1. /\ call' \in [Calls -> CallRecord] /\ call'[c] = x
        /\ \A d \in Calls : d # c => call'[d] = call[d]
    BY <1>3, <1>6, <1>12
  <2>2. <<n, c>> \in Requests
    BY <1>4 DEF Requests
  <2>3. /\ pending' \in [Sessions -> SUBSET Requests]
        /\ pending'[i] = pending[i] \cup {<<n, c>>}
        /\ \A j \in Sessions : j # i => pending'[j] = pending[j]
    BY <1>2, <1>12, <2>2 DEF Shapes
  <2>4. Shapes'
    BY <1>1, <1>7, <1>12, <2>1, <2>3 DEF Shapes
  <2>5. IdsLast'
    <3>1. c \notin Numbered /\ Numbered' = Numbered \cup {c}
      BY <1>1, <1>6, <2>1 DEF Numbered
    <3> QED
      BY <1>9, <3>1, NumberedMore
  <2>6. /\ Waiting(c)' /\ ~Waiting(c) /\ call'[c].session = i /\ call'[c].id = n
        /\ \A d \in Calls : d # c => Waiting(d)' = Waiting(d)
    BY <1>1, <1>6, <2>1 DEF Waiting
  <2>7. \A d \in Calls : Waiting(d) => /\ d # c /\ With(d) \in Sessions /\ call[d].id \in Nat
                                       /\ call[d].id <= session[With(d)].seq
    <3>1. \A d \in Calls : call[d].id \in Nat
      BY CallsCount DEF Shapes, CallRecord, Ids
    <3> QED
      BY <2>6, <3>1 DEF IdsGiven, Placed, Waiting
  <2>8. \A j \in Sessions : \A r \in held[j] : r[1] \in Nat /\ r[1] <= session[j].seq
    BY HeldShapes, RequestIs, CallsCount DEF IdsGiven
  <2>9. \A j \in Sessions : \A m \in said[j] : m.id \in Nat /\ m.id <= session[j].seq
    BY HeldShapes DEF IdsGiven, Message
  <2>10. session'[i].seq = n /\ n = session[i].seq + 1
    BY <1>5, <1>7
  <2> HIDE DEF n, i
  <2>11. IdsGiven'
    <3>1. (\A d \in Calls : Waiting(d) => call[d].id <= session[With(d)].seq)'
      <4> SUFFICES ASSUME NEW d \in Calls, Waiting(d)'
                   PROVE  call'[d].id <= session'[call'[d].session].seq
        BY DEF With
      <4>1. CASE d = c
        BY <1>4, <2>6, <2>10, <4>1
      <4>2. CASE d # c
        <5>1. Waiting(d) /\ call'[d] = call[d]
          BY <2>1, <2>6, <4>2
        <5> QED
          BY <1>9, <2>7, <5>1 DEF With
      <4> QED
        BY <4>1, <4>2
    <3>2. (\A j \in Sessions : \A r \in held[j] : r[1] <= session[j].seq)'
      BY <1>9, <1>10, <2>8
    <3>3. (\A j \in Sessions : \A m \in said[j] : m.id <= session[j].seq)'
      BY <1>9, <1>10, <2>9
    <3> QED
      BY <3>1, <3>2, <3>3 DEF IdsGiven
  <2>12. IdsAreOwn'
    <3> SUFFICES ASSUME NEW d \in Calls, Waiting(d)'
                 PROVE  /\ \A e \in Calls : /\ Waiting(e)' /\ call'[e].session = call'[d].session
                                            /\ call'[e].id = call'[d].id
                                            => e = d
                        /\ \A r \in held[call'[d].session] : r[1] = call'[d].id => r[2] = d
                        /\ \A m \in said[call'[d].session] : m.id = call'[d].id => m.of = d
      BY <1>10 DEF IdsAreOwn, With
    <3>1. CASE d = c
      <4>1. \A e \in Calls : e # c /\ Waiting(e)' /\ call'[e].session = i => call'[e].id # n
        BY <1>4, <2>1, <2>6, <2>7, <2>10 DEF With
      <4>2. \A r \in held[i] : r[1] # n
        BY <1>2, <1>4, <2>8, <2>10
      <4>3. \A m \in said[i] : m.id # n
        BY <1>2, <1>4, <2>9, <2>10
      <4> QED
        BY <2>6, <3>1, <4>1, <4>2, <4>3
    <3>2. CASE d # c
      <4>1. Waiting(d) /\ call'[d] = call[d]
        BY <2>1, <2>6, <3>2
      <4>2. call[d].session = i => call[d].id # n
        BY <1>4, <2>7, <2>10, <4>1 DEF With
      <4> QED
        BY <2>1, <2>6, <3>2, <4>1, <4>2 DEF IdsAreOwn, With
    <3> QED
      BY <3>1, <3>2
  <2>13. PendingIsWaiting'
    <3>1. (\A j \in Sessions : \A r \in pending[j] :
              Waiting(r[2]) /\ With(r[2]) = j /\ call[r[2]].id = r[1])'
      <4> SUFFICES ASSUME NEW j \in Sessions, NEW r \in pending'[j]
                   PROVE  Waiting(r[2])' /\ call'[r[2]].session = j /\ call'[r[2]].id = r[1]
        BY DEF With
      <4>1. CASE r \in pending[j]
        <5>1. r[2] \in Calls /\ Waiting(r[2]) /\ With(r[2]) = j /\ call[r[2]].id = r[1]
          BY <4>1, RequestIs DEF PendingIsWaiting, Shapes
        <5> QED
          BY <2>1, <2>6, <5>1 DEF With
      <4>2. CASE j = i /\ r = <<n, c>>
        BY <2>6, <4>2
      <4> QED
        BY <2>3, <4>1, <4>2
    <3>2. (\A d \in Calls : Waiting(d) /\ ~session[With(d)].closed =>
              <<call[d].id, d>> \in pending[With(d)])'
      <4> SUFFICES ASSUME NEW d \in Calls, Waiting(d)', ~session'[call'[d].session].closed
                   PROVE  <<call'[d].id, d>> \in pending'[call'[d].session]
        BY DEF With
      <4>1. CASE d = c
        BY <2>3, <2>6, <4>1
      <4>2. CASE d # c
        <5>1. Waiting(d) /\ call'[d] = call[d] /\ With(d) \in Sessions
          BY <2>1, <2>6, <2>7, <4>2
        <5>2. ~session[With(d)].closed
          BY <1>8, <5>1 DEF With
        <5>3. <<call[d].id, d>> \in pending[With(d)]
          BY <5>1, <5>2 DEF PendingIsWaiting
        <5> QED
          BY <2>3, <5>1, <5>3 DEF With
      <4> QED
        BY <4>1, <4>2
    <3>3. (\A d \in Calls : ~Waiting(d) => reply[d] = NoReply(d))'
      BY <1>12, <2>6 DEF PendingIsWaiting, NoReply
    <3> QED
      BY <3>1, <3>2, <3>3 DEF PendingIsWaiting
  <2>14. Placed'
    BY <1>1, <1>2, <1>4, <1>6, <1>8, <1>10, <2>1 DEF Placed, With
  <2>15. OneRequest' /\ AnswersMatch'
    BY <1>1, <1>10, <1>12 DEF OneRequest, AnswersMatch
  <2>16. Unsent'
    BY <1>1, <1>6, <1>10, <1>12, <2>1 DEF Unsent, Taken
  <2>17. AnswersAreTrue'
    BY <1>1, <1>10, <1>12 DEF AnswersAreTrue, Taken, Honest
  <2>18. ClaimsAreTrue'
    BY <1>1, <1>6, <1>10, <2>1 DEF ClaimsAreTrue, Taken
  <2>19. WellPicked'
    <3>1. \A j \in Sessions : \A r \in held[j] : r[2] \in Calls
      BY HeldShapes, RequestIs
    <3>2. \A d \in Calls : /\ call'[d].kind = call[d].kind /\ call'[d].class = call[d].class
      BY <1>6, <2>1
    <3>3. (\A j \in Sessions : \A r \in held[j] : Fits(r[2], j))'
      BY <1>8, <1>10, <3>1, <3>2 DEF WellPicked, Fits, Offer
    <3>4. \A d \in Calls : call'[d].pc \in {"picked", "send"} =>
              call[d].pc \in {"picked", "send"} /\ call'[d].session = With(d) /\ With(d) \in Sessions
      BY <1>1, <1>2, <1>6, <2>1 DEF Placed, With, i
    <3>5. (\A d \in Calls : call[d].pc \in {"picked", "send"} => Fits(d, With(d)))'
      BY <1>8, <3>2, <3>4 DEF WellPicked, Fits, Offer, With
    <3>6. (\A d \in Calls : call[d].pc \in {"unmade", "pick"} /\ call[d].kind = "reconcile" =>
              call[d].class = "QUERYABLE")'
      BY <1>6, <2>1 DEF WellPicked
    <3>7. (\A j \in Sessions : Offer(j).class = "QUERYABLE" => Offer(j).hook)'
      BY <1>8 DEF WellPicked, Offer
    <3> QED
      BY <3>3, <3>5, <3>6, <3>7 DEF WellPicked
  <2>20. NobodyWaitsOnClosed'
    <3> SUFFICES ASSUME NEW d \in Calls, Waiting(d)', session'[call'[d].session].closed
                 PROVE  reply[d].kind # "empty"
      BY <1>12 DEF NobodyWaitsOnClosed, Waiting, With
    <3>1. d # c
      BY <1>2, <1>8, <1>12, <2>6
    <3>2. Waiting(d) /\ call'[d] = call[d] /\ With(d) \in Sessions
      BY <2>1, <2>6, <2>7, <3>1
    <3>3. session[With(d)].closed
      BY <1>8, <3>2 DEF With
    <3> QED
      BY <3>2, <3>3 DEF NobodyWaitsOnClosed, Waiting
  <2> QED
    BY <2>4, <2>5, <2>11, <2>12, <2>13, <2>14, <2>15, <2>16, <2>17, <2>18, <2>19, <2>20
<1> QED
  BY <1>1, <1>11, <1>12

\* A call that waits returns with a claim that is true, and leaves the table.
LEMMA WaitReturns ==
    ASSUME GatewayInv, NEW c \in Calls, NEW o \in Outcomes, Waiting(c), Returns(c, o), Forget(c),
           UNCHANGED <<session, listed, down, running, up, ran>>,
           o = "not_executed" => c \notin ran /\ ~Taken(c),
           o = "ok" => c \in ran
    PROVE  GatewayInv'
<1>1. /\ call' \in [Calls -> CallRecord] /\ reply' \in [Calls -> ReplyRecord]
      /\ \A d \in Calls : d # c => call'[d] = call[d]
      /\ call'[c].pc = "returned"
  BY ReturnsIs DEF GatewayInv
<1>2. /\ pending' \in [Sessions -> SUBSET Requests]
      /\ \A i \in Sessions : /\ \A r \in pending'[i] : r \in pending[i] /\ r[2] # c
                             /\ \A r \in pending[i] : r[2] # c => r \in pending'[i]
  BY Forgotten
<1>3. Shapes'
  BY <1>1, <1>2 DEF GatewayInv, Shapes
<1>4. IdsLast'
  <2>1. Numbered \subseteq Numbered'
    BY <1>1 DEF Numbered
  <2> QED
    BY <1>3, <2>1, NumberedGrows
<1>5. \A i \in Sessions : session[i].seq \in Nat
  BY CallsCount DEF GatewayInv, Shapes, SessionRecord, Ids
<1>6. session' \in [Sessions -> SessionRecord]
  BY DEF GatewayInv, Shapes
<1> QED
  BY <1>2, <1>4, <1>5, <1>6, ReturnStep

\* A request is put on a stream once, for the session that serves it.
LEMMA SendRequestStep ==
    ASSUME GatewayInv, NEW c \in Calls, SendRequest(c)
    PROVE  GatewayInv'
<1> USE DEF GatewayInv
<1> DEFINE i == With(c)
           t == <<call[c].id, c>>
           x == [call[c] EXCEPT !.pc = "wait"]
<1>1. /\ call[c].pc = "send" /\ UNCHANGED <<session, listed, running, up, ran>>
      /\ \/ Returns(c, "unknown") /\ Forget(c) /\ UNCHANGED down
         \/ /\ down' = [down EXCEPT ![i] = down[i] \cup {t}] /\ call' = [call EXCEPT ![c] = x]
            /\ UNCHANGED <<pending, reply>>
  BY DEF SendRequest, At
<1>2. CASE Returns(c, "unknown") /\ Forget(c) /\ UNCHANGED down
  <2>1. "unknown" \in Outcomes /\ Waiting(c)
    BY <1>1 DEF Outcomes, Waiting
  <2> QED
    BY <1>1, <1>2, <2>1, WaitReturns
<1>3. CASE /\ down' = [down EXCEPT ![i] = down[i] \cup {t}] /\ call' = [call EXCEPT ![c] = x]
           /\ UNCHANGED <<pending, reply>>
  <2>1. i \in Sessions /\ session[i].pump # "none" /\ call[c].id \in 1..Cardinality(Calls)
    BY <1>1 DEF Placed
  <2>2. /\ session \in [Sessions -> SessionRecord]
        /\ call \in [Calls -> CallRecord] /\ call[c] \in CallRecord
    BY DEF Shapes
  <2>3. /\ x \in CallRecord /\ x.pc = "wait" /\ x.id = call[c].id /\ x.session = i
        /\ x.kind = call[c].kind /\ x.class = call[c].class /\ x.outcome = call[c].outcome
    BY <2>2, Names DEF CallRecord, With
  <2>4. t \in Requests /\ t[1] = call[c].id /\ t[2] = c
    BY <2>1 DEF Requests
  <2> HIDE DEF x, t, i
  <2>5. /\ call' \in [Calls -> CallRecord] /\ call'[c] = x
        /\ \A d \in Calls : d # c => call'[d] = call[d]
    BY <1>3, <2>2, <2>3
  <2>6. /\ down' \in [Sessions -> SUBSET Requests] /\ down'[i] = down[i] \cup {t}
        /\ \A j \in Sessions : j # i => down'[j] = down[j]
    BY <1>3, <2>1, <2>4 DEF Shapes
  <2>7. Shapes'
    BY <1>1, <1>3, <2>5, <2>6 DEF Shapes
  <2>8. /\ said' = said /\ held'[i] = held[i] \cup {t}
        /\ \A j \in Sessions : j # i => held'[j] = held[j]
    BY <1>1, <2>1, <2>6 DEF held, said
  <2>9. /\ c \notin ran /\ ~Taken(c) /\ reply[c].kind \in {"empty", "closed"}
        /\ \A j \in Sessions : \A m \in said[j] : m.of # c
        /\ call[c].outcome = "none"
    BY <1>1 DEF Unsent
  <2>10. \A d \in Calls : /\ Waiting(d)' = Waiting(d) /\ call'[d].id = call[d].id
                          /\ call'[d].session = With(d) /\ call'[d].kind = call[d].kind
                          /\ call'[d].class = call[d].class /\ call'[d].outcome = call[d].outcome
                          /\ call'[d].pc # call[d].pc => d = c
    BY <1>1, <2>3, <2>5 DEF Waiting, With, i
  <2>11. IdsLast'
    <3>1. Numbered' = Numbered
      BY <1>1, <2>3, <2>5 DEF Numbered
    <3> QED
      BY <1>1, <3>1 DEF IdsLast
  <2>12. Waiting(c) /\ With(c) = i
    BY <1>1 DEF Waiting, i
  <2>13. IdsGiven'
    <3>1. t[1] <= session[i].seq
      BY <2>4, <2>12 DEF IdsGiven
    <3>2. (\A d \in Calls : Waiting(d) => call[d].id <= session[With(d)].seq)'
      BY <1>1, <2>10 DEF IdsGiven, With
    <3>3. (\A j \in Sessions : \A r \in held[j] : r[1] <= session[j].seq)'
      BY <1>1, <2>8, <3>1 DEF IdsGiven
    <3>4. (\A j \in Sessions : \A m \in said[j] : m.id <= session[j].seq)'
      BY <1>1, <2>8 DEF IdsGiven
    <3> QED
      BY <3>2, <3>3, <3>4 DEF IdsGiven
  <2>14. IdsAreOwn'
    <3> SUFFICES ASSUME NEW d \in Calls, Waiting(d)
                 PROVE  /\ \A e \in Calls : Waiting(e) /\ With(e) = With(d) /\ call[e].id = call[d].id
                                            => e = d
                        /\ \A r \in held'[With(d)] : r[1] = call[d].id => r[2] = d
                        /\ \A m \in said[With(d)] : m.id = call[d].id => m.of = d
      BY <2>8, <2>10 DEF IdsAreOwn, With
    <3>1. With(d) = i /\ t[1] = call[d].id => t[2] = d
      BY <2>4, <2>12 DEF IdsAreOwn
    <3>2. With(d) \in Sessions
      BY DEF Placed, Waiting
    <3> QED
      BY <2>8, <3>1, <3>2 DEF IdsAreOwn
  <2>15. PendingIsWaiting'
    <3>1. \A j \in Sessions : \A r \in pending[j] : r[2] \in Calls
      BY RequestIs DEF Shapes
    <3> QED
      BY <1>1, <1>3, <2>10, <3>1 DEF PendingIsWaiting, With, NoReply
  <2>16. Placed'
    BY <1>1, <2>1, <2>3, <2>5, <2>8 DEF Placed, With, i
  <2>17. OneRequest'
    <3>1. \A j \in Sessions : \A r \in held[j] : r[2] # c
      BY <2>9 DEF Taken
    <3>2. t \notin running[i]
      BY <2>1, <2>4, <3>1 DEF held
    <3>3. (\A j \in Sessions : down[j] \cap running[j] = {})'
      BY <1>1, <2>6, <3>2 DEF OneRequest
    <3>4. (\A j, k \in Sessions : \A r \in held[j], s \in held[k] : r[2] = s[2] => j = k /\ r = s)'
      BY <2>4, <2>8, <3>1 DEF OneRequest
    <3> QED
      BY <3>3, <3>4 DEF OneRequest
  <2>18. \A d \in Calls : d # c => Taken(d)' = Taken(d)
    BY <2>1, <2>4, <2>8 DEF Taken
  <2>19. Unsent'
    <3> SUFFICES ASSUME NEW d \in Calls
                 PROVE  /\ call'[d].pc # "returned" => call'[d].outcome = "none"
                        /\ call'[d].pc \in {"unmade", "pick", "picked", "send"} =>
                              /\ d \notin ran /\ ~Taken(d)' /\ reply[d].kind \in {"empty", "closed"}
                              /\ \A j \in Sessions : \A m \in said[j] : m.of # d
      BY <1>1, <1>3, <2>8 DEF Unsent
    <3>1. CASE d = c
      BY <2>3, <2>5, <2>9, <3>1
    <3>2. CASE d # c
      BY <2>5, <2>18, <3>2 DEF Unsent
    <3> QED
      BY <3>1, <3>2
  <2>20. AnswersAreTrue'
    <3>1. \A j \in Sessions : \A m \in said[j] : m.of \in Calls /\ m.of # c
      BY <2>9, HeldShapes DEF Message
    <3>2. \A d \in Calls : reply[d].kind \in Answers => d # c
      BY <2>9 DEF Answers
    <3>3. \A d \in Calls : d # c /\ ~Taken(d) => ~Taken(d)'
      BY <2>18
    <3>4. \A j \in Sessions : \A m \in said[j] : ~Taken(m.of)' /\ Honest(m.kind, m.of)
      BY <3>1, <3>3 DEF AnswersAreTrue
    <3>5. \A d \in Calls : reply[d].kind \in Answers => ~Taken(d)' /\ Honest(reply[d].kind, d)
      BY <3>2, <3>3 DEF AnswersAreTrue
    <3> QED
      BY <1>1, <1>3, <2>8, <3>4, <3>5 DEF AnswersAreTrue, Honest
  <2>21. ClaimsAreTrue'
    BY <1>1, <2>9, <2>10, <2>18 DEF ClaimsAreTrue
  <2>22. WellPicked'
    <3>1. \A j \in Sessions : \A r \in held[j] : r[2] \in Calls
      BY HeldShapes, RequestIs
    <3>2. Fits(c, i)
      BY <1>1 DEF WellPicked, i
    <3>3. (\A j \in Sessions : \A r \in held[j] : Fits(r[2], j))'
      <4> SUFFICES ASSUME NEW j \in Sessions, NEW r \in held'[j] PROVE Fits(r[2], j)'
        OBVIOUS
      <4>1. r[2] \in Calls /\ Fits(r[2], j)
        <5>1. CASE r \in held[j]
          BY <3>1, <5>1 DEF WellPicked
        <5>2. CASE j = i /\ r = t
          BY <2>4, <3>2, <5>2
        <5> QED
          BY <2>8, <5>1, <5>2
      <4> QED
        BY <1>1, <2>10, <4>1 DEF Fits, Offer
    <3>4. (\A d \in Calls : call[d].pc \in {"picked", "send"} => Fits(d, With(d)))'
      BY <1>1, <2>3, <2>5 DEF WellPicked, Fits, Offer, With
    <3>5. (\A d \in Calls : call[d].pc \in {"unmade", "pick"} /\ call[d].kind = "reconcile" =>
              call[d].class = "QUERYABLE")'
      BY <2>3, <2>5 DEF WellPicked
    <3>6. (\A j \in Sessions : Offer(j).class = "QUERYABLE" => Offer(j).hook)'
      BY <1>1 DEF WellPicked, Offer
    <3> QED
      BY <3>3, <3>4, <3>5, <3>6 DEF WellPicked
  <2>23. AnswersMatch' /\ NobodyWaitsOnClosed'
    BY <1>1, <1>3, <2>10 DEF AnswersMatch, NobodyWaitsOnClosed, Waiting, With
  <2> QED
    BY <2>7, <2>11, <2>13, <2>14, <2>15, <2>16, <2>17, <2>19, <2>20, <2>21, <2>22, <2>23
<1> QED
  BY <1>1, <1>2, <1>3

\* What a reply says of the call is so, and a closed channel says nothing.
LEMMA ReceiveReplyStep ==
    ASSUME GatewayInv, NEW c \in Calls, ReceiveReply(c)
    PROVE  GatewayInv'
<1>1. /\ Waiting(c) /\ Forget(c) /\ Returns(c, ResultOf(reply[c]))
      /\ UNCHANGED <<session, listed, down, running, up, ran>>
  BY DEF ReceiveReply, At, Waiting, wire
<1>2. /\ ResultOf(reply[c]) \in Outcomes
      /\ ResultOf(reply[c]) = "not_executed" => reply[c].kind = "CERTAINTY_NOT_EXECUTED"
      /\ ResultOf(reply[c]) = "ok" => reply[c].kind = "ok"
  BY DEF ResultOf, Failure, Outcomes
<1>3. "ok" \in Answers /\ "CERTAINTY_NOT_EXECUTED" \in Answers
  BY DEF Answers
<1>4. /\ ResultOf(reply[c]) = "not_executed" => c \notin ran /\ ~Taken(c)
      /\ ResultOf(reply[c]) = "ok" => c \in ran
  BY <1>2, <1>3 DEF GatewayInv, AnswersAreTrue, Honest
<1> QED
  BY <1>1, <1>2, <1>4, WaitReturns

\* A wait that is given up, or whose worker is gone, claims nothing.
LEMMA GiveUpStep ==
    ASSUME GatewayInv, NEW c \in Calls, ContextEnds(c) \/ SessionDone(c)
    PROVE  GatewayInv'
<1>1. /\ Waiting(c) /\ Forget(c) /\ Returns(c, "unknown")
      /\ UNCHANGED <<session, listed, down, running, up, ran>>
  BY DEF ContextEnds, SessionDone, At, Waiting, wire
<1>2. "unknown" \in Outcomes
  BY DEF Outcomes
<1> QED
  BY <1>1, <1>2, WaitReturns

----------------------------------------------------------------------------
\* The invariant holds before anyone has connected.
LEMMA GatewayInit == Init => GatewayInv
<1> SUFFICES ASSUME Init PROVE GatewayInv
  OBVIOUS
<1>1. Shapes
  BY ShapesInit
<1>2. /\ \A i \in Sessions : /\ session[i] = NoSession /\ pending[i] = {}
                             /\ down[i] = {} /\ running[i] = {} /\ up[i] = <<>>
      /\ \A c \in Calls : call[c] = Unmade /\ reply[c] = NoReply(c)
      /\ listed = {} /\ ran = {}
  BY DEF Init
<1>3. \A i \in Sessions : held[i] = {} /\ said[i] = {}
  BY <1>2 DEF held, said, Spoken
<1>4. \A i \in Sessions : /\ session[i].seq = 0 /\ session[i].pump = "none"
                          /\ session[i].offer = NoOffer /\ ~session[i].closed
  BY <1>2 DEF NoSession
<1>5. \A c \in Calls : /\ call[c].pc = "unmade" /\ call[c].kind = "decide"
                       /\ call[c].outcome = "none" /\ reply[c].kind = "empty" /\ reply[c].of = c
  <2>1. Unmade.pc = "unmade" /\ Unmade.kind = "decide" /\ Unmade.outcome = "none"
    BY DEF Unmade
  <2>2. \A c \in Calls : NoReply(c).kind = "empty" /\ NoReply(c).of = c
    BY DEF NoReply
  <2> QED
    BY <1>2, <2>1, <2>2
<1>6. IdsLast
  <2>1. Cardinality(Numbered) \in Nat
    <3>1. Numbered \subseteq Calls
      BY DEF Numbered
    <3> QED
      BY <3>1, CallsCount, FS_Subset, FS_CardinalityType
  <2> QED
    BY <1>4, <2>1 DEF IdsLast
<1>7. IdsGiven /\ IdsAreOwn /\ PendingIsWaiting /\ Placed /\ OneRequest
  BY <1>2, <1>3, <1>5 DEF IdsGiven, IdsAreOwn, PendingIsWaiting, Placed, OneRequest, Waiting
<1>8. Unsent /\ AnswersAreTrue /\ ClaimsAreTrue
  BY <1>2, <1>3, <1>5 DEF Unsent, AnswersAreTrue, ClaimsAreTrue, Taken, Answers
<1>9. WellPicked
  <2>1. \A i \in Sessions : session[i].offer.class # "QUERYABLE"
    <3>1. NoOffer.class # "QUERYABLE"
      BY DEF NoOffer, NoTool
    <3> QED
      BY <1>4, <3>1
  <2> QED
    BY <1>3, <1>5, <2>1 DEF WellPicked, Offer
<1>10. AnswersMatch /\ NobodyWaitsOnClosed
  BY <1>5 DEF AnswersMatch, NobodyWaitsOnClosed
<1> QED
  BY <1>1, <1>6, <1>7, <1>8, <1>9, <1>10 DEF GatewayInv

\* Every step preserves it.
LEMMA GatewayStep == GatewayInv /\ [Next]_vars => GatewayInv'
<1> SUFFICES ASSUME GatewayInv, [Next]_vars PROVE GatewayInv'
  OBVIOUS
<1>1. ASSUME NEW i \in Sessions, NEW offer \in Offers[i], Register(i, offer) PROVE GatewayInv'
  BY <1>1, RegisterStep
<1>2. ASSUME NEW i \in Sessions, Serve(i) PROVE GatewayInv'
  BY <1>2, AcknowledgeStep, PumpReadsStep, PumpEndsStep, RemoveStep DEF Serve
<1>3. ASSUME NEW i \in Sessions, Handles(i) PROVE GatewayInv'
  BY <1>3, WorkerReadsStep, HandlerActsStep, HandlerCannotAnswerStep, HandlerAnswersStep
     DEF Handles
<1>4. ASSUME NEW i \in Sessions, WorkerStops(i) \/ StreamDies(i) PROVE GatewayInv'
  BY <1>4, WorkerStopsStep, StreamDiesStep
<1>5. ASSUME NEW c \in Decisions, MakeDecide(c) PROVE GatewayInv'
  BY <1>5, MakeDecideStep DEF Calls
<1>6. ASSUME NEW c \in ToolCalls, NEW kind \in {"execute", "reconcile"}, LookupTool(c, kind)
      PROVE  GatewayInv'
  BY <1>6, LookupToolStep DEF Calls
<1>7. ASSUME NEW c \in Calls, Proceeds(c) \/ ContextEnds(c) PROVE GatewayInv'
  BY <1>7, PickDeciderStep, PickForToolStep, BeginCallStep, SendRequestStep, ReceiveReplyStep,
     GiveUpStep DEF Proceeds
<1>8. CASE UNCHANGED vars
  BY <1>8 DEF vars, GatewayInv, Shapes, IdsLast, IdsGiven, IdsAreOwn, PendingIsWaiting, Placed,
     OneRequest, Unsent, AnswersAreTrue, ClaimsAreTrue, WellPicked, AnswersMatch,
     NobodyWaitsOnClosed, held, said, Numbered, Waiting, With, Taken, Honest, Fits, Offer, NoReply
<1> QED
  BY <1>1, <1>2, <1>3, <1>4, <1>5, <1>6, <1>7, <1>8 DEF Next

\* The inductive invariant: whatever the workers, the engine and the network do,
\* every id has one owner and every request one place (nextCallID, begin, deliver,
\* forget, close in internal/sdk/gateway).
THEOREM GatewayInvariant == Spec => []GatewayInv
BY GatewayInit, GatewayStep, PTL DEF Spec

\* Every variable of the gateway and of its workers keeps its shape; ids in
\* particular never exceed the number of calls (nextCallID).
THEOREM TypeCorrect == Spec => []TypeOK
<1>1. GatewayInv => TypeOK
  BY ShapesAreTypes DEF GatewayInv
<1> QED
  BY <1>1, GatewayInvariant, PTL

\* A result reaches the call it answers and no other, for any number of calls
\* sharing any number of sessions (nextCallID, the pending table, deliver).
THEOREM RepliesReachTheirCalls == Spec => []AnswersMatch
<1>1. GatewayInv => AnswersMatch
  BY DEF GatewayInv
<1> QED
  BY <1>1, GatewayInvariant, PTL

\* "Not executed" is claimed only of a call no handler acted on or can still act
\* on, success only of one a handler did act on (resultOf, wire.Failure).
THEOREM ClaimsHold == Spec => []CertaintyIsHonest
<1>1. GatewayInv => CertaintyIsHonest
  <2> SUFFICES ASSUME GatewayInv, NEW c \in Calls
               PROVE  /\ call[c].outcome = "not_executed" =>
                            /\ c \notin ran
                            /\ \A i \in Sessions : \A n \in 1..Cardinality(Calls) :
                                  <<n, c>> \notin down[i] \cup running[i]
                      /\ call[c].outcome = "ok" => c \in ran
    BY DEF CertaintyIsHonest
  <2>1. \A i \in Sessions : held[i] = down[i] \cup running[i]
    BY DEF held
  <2>2. ~Taken(c) => \A i \in Sessions : \A n \in 1..Cardinality(Calls) : <<n, c>> \notin held[i]
    BY DEF Taken
  <2> QED
    BY <2>1, <2>2 DEF GatewayInv, ClaimsAreTrue
<1> QED
  BY <1>1, GatewayInvariant, PTL

\* Whoever registered with a session before it closed has been woken by the
\* close, and nobody registers after it (begin, close).
THEOREM ClosedWakesAll == Spec => []NobodyWaitsOnClosed
<1>1. GatewayInv => NobodyWaitsOnClosed
  BY DEF GatewayInv
<1> QED
  BY <1>1, GatewayInvariant, PTL

\* A handler acts only where the call was meant to go, whatever workers come and
\* go between Lookup, the pick and the call (pickDecider, pickForTool).
THEOREM OnlyTheRightWorker == Spec => []RightWorkerActs
<1>1. GatewayInv => RightWorkerActs
  <2>1. GatewayInv => \A i \in Sessions : \A r \in down[i] \cup running[i] : Fits(r[2], i)
    BY DEF GatewayInv, WellPicked, held
  <2> QED
    BY <2>1 DEF RightWorkerActs, Fits
<1> QED
  BY <1>1, GatewayInvariant, PTL
=============================================================================

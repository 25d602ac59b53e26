------------------------- MODULE ReplyRouterProofs --------------------------
(***************************************************************************)
(* The reply router, for every number of calls, foreign correlation ids    *)
(* and copies of a reply: the map is exact, a call only ever returns its   *)
(* own reply, no reply overtakes a registration, and the calls implement   *)
(* SearchCall.                                                             *)
(***************************************************************************)
EXTENDS ReplyRouter, TLAPS

\* An envelope in the callback's hands, or in a channel, is where its
\* correlation id belongs.
Addressed ==
    /\ hand # NoReply => hand.ch = hand.env
    /\ \A c \in Calls : buf[c] \in {None, c}

\* Nothing is handled that was not published, and nothing is answered that
\* was not requested, which takes a call that has registered.
Causal ==
    /\ \A x \in Corrs : inbox[x] <= copies[x]
    /\ \A c \in Calls : /\ hand # NoReply /\ hand.ch = c => copies[c] > 0
                        /\ buf[c] # None => copies[c] > 0
                        /\ copies[c] > 0 => c \in requested
                        /\ c \in requested => pc[c] # "idle"

\* What a call is going to return is decided before its cleanup.
Decided ==
    \A c \in Calls : pc[c] \in {"leaving", "unregistered"} =>
                        outcome[c] \in {"results", "timeout", "error"}

IInv ==
    /\ TypeOK
    /\ PendingIsActive
    /\ Addressed
    /\ Causal
    /\ Decided
    /\ OnlyOwnReply

USE DEF NoReply, Corrs

-----------------------------------------------------------------------------
\* Nothing is registered, published or in flight initially.
LEMMA InitEstablishes == Init => IInv
<1> SUFFICES ASSUME Init PROVE IInv
  OBVIOUS
<1>1. TypeOK
  <2>1. copies \in [Corrs -> 0..MaxCopies] /\ inbox \in [Corrs -> 0..MaxCopies]
    BY RouterAssumption DEF Init
  <2>2. /\ pc \in [Calls -> {"idle", "registered", "waiting", "leaving", "unregistered", "done"}]
        /\ outcome \in [Calls -> {"none", "results", "timeout", "error", "aborted"}]
    BY DEF Init
  <2>3. got \in [Calls -> Corrs \cup {None}] /\ buf \in [Calls -> Corrs \cup {None}]
    BY DEF Init
  <2> QED
    BY <2>1, <2>2, <2>3 DEF Init, TypeOK
<1>2. PendingIsActive /\ Addressed
  BY DEF Init, PendingIsActive, Addressed
<1>3. Causal /\ Decided /\ OnlyOwnReply
  BY RouterAssumption DEF Init, Causal, Decided, OnlyOwnReply
<1> QED
  BY <1>1, <1>2, <1>3 DEF IInv

\* The end of the process clears everything that refers to a call.
LEMMA DiePreserves == IInv /\ Die => IInv'
<1> SUFFICES ASSUME IInv, Die PROVE IInv'
  OBVIOUS
<1>1. TypeOK'
  <2>1. /\ pc' \in [Calls -> {"idle", "registered", "waiting", "leaving", "unregistered", "done"}]
        /\ outcome' \in [Calls -> {"none", "results", "timeout", "error", "aborted"}]
    BY DEF IInv, TypeOK, Die, Active
  <2>2. /\ buf' \in [Calls -> Corrs \cup {None}]
        /\ inbox' \in [Corrs -> 0..MaxCopies]
    BY RouterAssumption DEF IInv, TypeOK, Die
  <2> QED
    BY <2>1, <2>2 DEF IInv, TypeOK, Die, busVars
<1>2. PendingIsActive'
  BY DEF IInv, TypeOK, PendingIsActive, Die, Active
<1>3. Addressed'
  BY DEF IInv, Addressed, Die
<1>4. Causal'
  BY DEF IInv, TypeOK, Causal, Die, Active, busVars
<1>5. Decided'
  BY DEF IInv, TypeOK, Decided, Die, Active
<1>6. OnlyOwnReply'
  BY DEF IInv, TypeOK, OnlyOwnReply, Die, Active, busVars
<1> QED
  BY <1>1, <1>2, <1>3, <1>4, <1>5, <1>6 DEF IInv

\* The steps of the consumer and of the process.
LEMMA SubscribePreserves == IInv /\ (Subscribe \/ Restart) => IInv'
  BY DEF IInv, TypeOK, PendingIsActive, Addressed, Causal, Decided, OnlyOwnReply,
         Subscribe, Restart, callVars, busVars

\* A new answer is counted before it is delivered.
LEMMA ReplyArrivesPreserves == ASSUME NEW x \in Corrs, IInv, ReplyArrives(x) PROVE IInv'
<1>1. TypeOK' /\ Causal'
  BY RouterAssumption DEF IInv, TypeOK, Causal, ReplyArrives, callVars, procVars
<1>2. PendingIsActive' /\ Addressed' /\ Decided'
  BY DEF IInv, PendingIsActive, Addressed, Decided, ReplyArrives, callVars
<1>3. OnlyOwnReply'
  BY DEF IInv, TypeOK, OnlyOwnReply, ReplyArrives, callVars
<1> QED
  BY <1>1, <1>2, <1>3 DEF IInv

\* The lookup takes a published reply into the hands of the callback.
LEMMA LookupPreserves == ASSUME NEW x \in Corrs, IInv, Lookup(x) PROVE IInv'
<1>1. TypeOK'
  BY RouterAssumption DEF IInv, TypeOK, Lookup, callVars, busVars, procVars
<1>2. Addressed' /\ Causal'
  BY RouterAssumption DEF IInv, TypeOK, Addressed, Causal, Lookup, callVars, busVars
<1>3. PendingIsActive' /\ Decided' /\ OnlyOwnReply'
  BY DEF IInv, PendingIsActive, Decided, OnlyOwnReply, Lookup, callVars, busVars
<1> QED
  BY <1>1, <1>2, <1>3 DEF IInv

\* The send puts it into the channel of its own call.
LEMMA SendPreserves == IInv /\ Send => IInv'
<1> SUFFICES ASSUME IInv, Send PROVE IInv'
  OBVIOUS
<1>1. hand \in [ch : Calls, env : Corrs] /\ hand.ch = hand.env /\ copies[hand.ch] > 0
  BY DEF IInv, TypeOK, Addressed, Causal, Send
<1>2. TypeOK' /\ Addressed' /\ Causal'
  BY <1>1, RouterAssumption DEF IInv, TypeOK, Addressed, Causal, Send, callVars, busVars, procVars
<1>3. PendingIsActive' /\ Decided' /\ OnlyOwnReply'
  BY DEF IInv, PendingIsActive, Decided, OnlyOwnReply, Send, callVars, busVars
<1> QED
  BY <1>2, <1>3 DEF IInv

\* The steps of a call.
LEMMA CallPreserves ==
    ASSUME NEW c \in Calls, IInv,
           \/ Register(c) \/ PublishOK(c) \/ PublishFail(c)
           \/ Timeout(c) \/ Unregister(c) \/ Close(c)
    PROVE  IInv'
<1> USE DEF IInv, TypeOK, PendingIsActive, Addressed, Causal, Decided, OnlyOwnReply,
            busVars, procVars
<1>1. CASE Register(c)
  BY <1>1, RouterAssumption DEF Register
<1>2. CASE PublishOK(c)
  BY <1>2, RouterAssumption DEF PublishOK
<1>3. CASE PublishFail(c)
  BY <1>3, RouterAssumption DEF PublishFail
<1>4. CASE Timeout(c)
  BY <1>4, RouterAssumption DEF Timeout
<1>5. CASE Unregister(c)
  BY <1>5, RouterAssumption DEF Unregister
<1>6. CASE Close(c)
  BY <1>6, RouterAssumption DEF Close
<1> QED
  BY <1>1, <1>2, <1>3, <1>4, <1>5, <1>6

\* A call takes its own reply from its channel.
LEMMA ReceivePreserves == ASSUME NEW c \in Calls, IInv, Receive(c) PROVE IInv'
<1>1. buf[c] = c /\ copies[c] > 0 /\ c \in requested
  BY DEF IInv, Addressed, Causal, Receive
<1>2. TypeOK' /\ Addressed' /\ Causal'
  BY <1>1 DEF IInv, TypeOK, Addressed, Causal, Receive, busVars, procVars
<1>3. PendingIsActive' /\ Decided' /\ OnlyOwnReply'
  BY <1>1 DEF IInv, TypeOK, PendingIsActive, Decided, OnlyOwnReply, Receive, busVars
<1> QED
  BY <1>2, <1>3 DEF IInv

\* The invariant holds in every reachable state.
THEOREM Inductive == Spec => []IInv
<1>1. IInv /\ UNCHANGED vars => IInv'
  BY DEF IInv, TypeOK, PendingIsActive, Addressed, Causal, Decided, OnlyOwnReply,
         vars, callVars, busVars, procVars
<1>2. IInv /\ [Next]_vars => IInv'
  BY <1>1, DiePreserves, SubscribePreserves, ReplyArrivesPreserves, LookupPreserves,
     SendPreserves, CallPreserves, ReceivePreserves
  DEF Next, SendPanics, Crash
<1> QED
  BY InitEstablishes, <1>2, PTL DEF Spec

\* Every variable of the reply router keeps its type.
THEOREM TypeCorrect == Spec => []TypeOK
<1>1. IInv => TypeOK
  BY DEF IInv
<1> QED
  BY <1>1, Inductive, PTL

\* The map of pending requests holds exactly the active calls.
THEOREM MapIsExact == Spec => []PendingIsActive
<1>1. IInv => PendingIsActive
  BY DEF IInv
<1> QED
  BY <1>1, Inductive, PTL

\* A call returns results only from its own, published reply.
THEOREM RepliesAreOwn == Spec => []OnlyOwnReply
<1>1. IInv => OnlyOwnReply
  BY DEF IInv
<1> QED
  BY <1>1, Inductive, PTL

-----------------------------------------------------------------------------
\* A reply is dropped only when its call is past its cleanup: it was
\* published after the request, so after the registration.
THEOREM NoReplyOvertakes == Spec => DropOnlyWhenGone
<1>1. ASSUME IInv, [Next]_vars, NEW c \in Calls,
             inbox'[c] < inbox[c], hand' = NoReply, up'
      PROVE  pc[c] \in {"unregistered", "done"}
  <2>1. inbox[c] \in Nat /\ inbox'[c] # inbox[c]
    BY <1>1, RouterAssumption DEF IInv, TypeOK
  <2>2. PICK x \in Corrs : Lookup(x)
    <3>1. ASSUME NEW x \in Corrs, ReplyArrives(x) PROVE FALSE
      BY <1>1, <3>1, RouterAssumption DEF ReplyArrives, IInv, TypeOK
    <3> QED
      BY <1>1, <2>1, <3>1
      DEF Next, vars, SendPanics, Crash, Die, Subscribe, Send, Restart, Register, PublishOK,
          PublishFail, Receive, Timeout, Unregister, Close
  <2>3. x = c /\ c \notin pendingReqs /\ inbox[c] > 0
    BY <1>1, <2>1, <2>2, RouterAssumption DEF Lookup, IInv, TypeOK
  <2>4. pc[c] # "idle"
    BY <1>1, <2>1, <2>3, RouterAssumption DEF IInv, Causal, TypeOK
  <2> QED
    BY <1>1, <2>3, <2>4 DEF IInv, TypeOK, PendingIsActive
<1>2. IInv /\ [Next]_vars => [\A c \in Calls : inbox'[c] < inbox[c] /\ hand' = NoReply /\ up' =>
                                pc[c] \in {"unregistered", "done"}]_vars
  BY <1>1
<1> QED
  BY <1>2, Inductive, PTL DEF Spec, DropOnlyWhenGone

-----------------------------------------------------------------------------
\* How a call looks from outside.
Outside(c) == CASE pc[c] = "idle" -> "idle"
                [] pc[c] = "done" -> outcome[c]
                [] OTHER -> "open"

\* The steps of a call inside SearchDocuments, between registration and close.
LEMMA InnerStep ==
    ASSUME IInv, NEW c \in Calls,
           \/ PublishOK(c) \/ PublishFail(c) \/ Receive(c) \/ Timeout(c) \/ Unregister(c)
    PROVE  UNCHANGED Call!callVars
<1>1. copies' = copies
  BY DEF PublishOK, PublishFail, Receive, Timeout, Unregister, busVars
<1>2. /\ pc' = [pc EXCEPT ![c] = pc'[c]]
      /\ pc[c] \in {"registered", "waiting", "leaving"}
      /\ pc'[c] \in {"waiting", "leaving", "unregistered"}
      /\ \A d \in Calls \ {c} : outcome'[d] = outcome[d]
  BY DEF IInv, TypeOK, PublishOK, PublishFail, Receive, Timeout, Unregister
<1>3. \A d \in Calls : Outside(d)' = Outside(d)
  BY <1>2 DEF Outside, IInv, TypeOK
<1> QED
  BY <1>1, <1>3 DEF Call!callVars, Outside

\* Registration opens the call.
LEMMA RegisterOpens == ASSUME IInv, NEW c \in Calls, Register(c) PROVE Call!Open(c)
<1>1. /\ copies' = copies
      /\ pc' = [pc EXCEPT ![c] = "registered"]
      /\ pc[c] = "idle"
      /\ outcome' = outcome
  BY DEF Register, busVars
<1>2. Outside(c) = "idle" /\ Outside(c)' = "open"
  BY <1>1 DEF Outside, IInv, TypeOK
<1>3. \A d \in Calls \ {c} : Outside(d)' = Outside(d)
  BY <1>1 DEF Outside, IInv, TypeOK
<1> QED
  BY <1>1, <1>2, <1>3 DEF Call!Open, Outside

\* Closing the channel is the last thing a call does before it returns what
\* it decided on; results take an answer.
LEMMA CloseReturns == ASSUME IInv, NEW c \in Calls, Close(c) PROVE Call!Return(c)
<1>1. /\ copies' = copies
      /\ pc' = [pc EXCEPT ![c] = "done"]
      /\ pc[c] = "unregistered"
      /\ outcome' = outcome
  BY DEF Close, busVars
<1>2. Outside(c) = "open" /\ Outside(c)' = outcome[c]
  BY <1>1 DEF Outside, IInv, TypeOK
<1>3. \A d \in Calls \ {c} : Outside(d)' = Outside(d)
  BY <1>1 DEF Outside, IInv, TypeOK
<1>4. /\ outcome[c] \in {"results", "timeout", "error"}
      /\ outcome[c] = "results" => copies[c] > 0
  BY <1>1 DEF IInv, Decided, OnlyOwnReply
<1> QED
  BY <1>1, <1>2, <1>3, <1>4 DEF Call!Return, Outside

\* A published answer to a call of this process answers it.
LEMMA ReplyAnswers ==
    ASSUME IInv, NEW x \in Corrs, ReplyArrives(x)
    PROVE  (x \in Calls /\ Call!Answer(x)) \/ UNCHANGED Call!callVars
<1>1. /\ copies' = [copies EXCEPT ![x] = @ + 1]
      /\ pc' = pc /\ outcome' = outcome
      /\ copies \in [Corrs -> Nat]
      /\ x \in Foreign \cup requested
  BY RouterAssumption DEF ReplyArrives, callVars, IInv, TypeOK
<1>2. CASE x \in Calls
  <2>1. Outside(x) # "idle"
    <3>1. pc[x] # "idle" /\ outcome[x] # "idle"
      BY <1>1, <1>2, RouterAssumption DEF IInv, Causal, TypeOK
    <3> QED
      BY <3>1 DEF Outside
  <2>2. {c \in Calls : copies'[c] > 0} = {c \in Calls : copies[c] > 0} \cup {x}
    BY <1>1, <1>2
  <2> QED
    BY <1>1, <1>2, <2>1, <2>2 DEF Call!Answer, Outside
<1>3. CASE x \notin Calls
  <2>1. \A c \in Calls : copies'[c] = copies[c]
    BY <1>1, <1>3
  <2> QED
    BY <1>1, <2>1 DEF Call!callVars
<1> QED
  BY <1>2, <1>3

\* The end of the process aborts all open calls.
LEMMA DieAborts == ASSUME IInv, Die PROVE Call!Abort
<1>1. copies' = copies
  BY DEF Die, busVars
<1>2. \A c \in Calls : Outside(c)' = IF Outside(c) = "open" THEN "aborted" ELSE Outside(c)
  <2> SUFFICES ASSUME NEW c \in Calls
               PROVE  Outside(c)' = IF Outside(c) = "open" THEN "aborted" ELSE Outside(c)
    OBVIOUS
  <2>1. /\ pc'[c] = IF Active(c) THEN "done" ELSE pc[c]
        /\ outcome'[c] = IF Active(c) THEN "aborted" ELSE outcome[c]
        /\ outcome[c] # "open"
    BY DEF Die, IInv, TypeOK
  <2> QED
    BY <2>1 DEF Outside, Active
<1> QED
  BY <1>1, <1>2 DEF Call!Abort, Outside

\* Every behaviour of the reply router is one SearchCall allows: a call
\* returns once, and with results only if its search was answered.
THEOREM Implements == Spec => Call!CallSpec
<1>1. Init => Call!CallInit
  <2> SUFFICES ASSUME Init PROVE Call!CallInit
    OBVIOUS
  <2>1. \A c \in Calls : Outside(c) = "idle"
    BY DEF Init, Outside
  <2>2. \A c \in Calls : copies[c] = 0
    BY DEF Init
  <2> QED
    BY <2>1, <2>2 DEF Call!CallInit, Outside
<1>2. IInv /\ [Next]_vars => [Call!CallNext]_(Call!callVars)
  <2> SUFFICES ASSUME IInv, [Next]_vars PROVE [Call!CallNext]_(Call!callVars)
    OBVIOUS
  <2>1. CASE Subscribe \/ Restart \/ Send \/ (\E x \in Corrs : Lookup(x)) \/ UNCHANGED vars
    <3>1. pc' = pc /\ outcome' = outcome /\ copies' = copies
      BY <2>1 DEF Subscribe, Restart, Send, Lookup, vars, callVars, busVars
    <3> QED
      BY <3>1 DEF Call!callVars
  <2>2. CASE SendPanics \/ Crash
    BY <2>2, DieAborts DEF SendPanics, Crash, Call!CallNext
  <2>3. CASE \E x \in Corrs : ReplyArrives(x)
    BY <2>3, ReplyAnswers DEF Call!CallNext
  <2>4. CASE \E c \in Calls : Register(c)
    BY <2>4, RegisterOpens DEF Call!CallNext
  <2>5. CASE \E c \in Calls : PublishOK(c) \/ PublishFail(c) \/ Receive(c) \/ Timeout(c) \/ Unregister(c)
    BY <2>5, InnerStep
  <2>6. CASE \E c \in Calls : Close(c)
    BY <2>6, CloseReturns DEF Call!CallNext
  <2> QED
    BY <2>1, <2>2, <2>3, <2>4, <2>5, <2>6 DEF Next
<1> QED
  BY <1>1, <1>2, Inductive, PTL DEF Spec, Call!CallSpec

=============================================================================

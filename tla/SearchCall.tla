----------------------------- MODULE SearchCall -----------------------------
(***************************************************************************)
(* What the gateway promises the client of a search: a call that was       *)
(* opened returns once, with results only if its own search was answered,  *)
(* and otherwise with a timeout, an error, or because the gateway died.    *)
(***************************************************************************)
CONSTANTS Calls

VARIABLES
    outcome,  \* "idle", "open", or how the call returned
    answered  \* the calls whose search an engine has answered

callVars == <<outcome, answered>>

CallInit ==
    /\ outcome = [c \in Calls |-> "idle"]
    /\ answered = {}

Open(c) ==
    /\ outcome[c] = "idle"
    /\ outcome' = [outcome EXCEPT ![c] = "open"]
    /\ UNCHANGED answered

\* An engine answers a search whose call was opened, also when the call has
\* returned in the meantime.
Answer(c) ==
    /\ outcome[c] # "idle"
    /\ answered' = answered \cup {c}
    /\ UNCHANGED outcome

\* Calls return one at a time, or several abort together.
Return(c) ==
    /\ outcome[c] = "open"
    /\ \/ c \in answered /\ outcome' = [outcome EXCEPT ![c] = "results"]
       \/ \E how \in {"timeout", "error"} : outcome' = [outcome EXCEPT ![c] = how]
    /\ UNCHANGED answered

Abort ==
    /\ outcome' = [c \in Calls |-> IF outcome[c] = "open" THEN "aborted" ELSE outcome[c]]
    /\ UNCHANGED answered

CallNext ==
    \/ Abort
    \/ \E c \in Calls : Open(c) \/ Answer(c) \/ Return(c)

CallSpec == CallInit /\ [][CallNext]_callVars

\* The call does not hang.
CallFairSpec == CallSpec /\ \A c \in Calls : WF_callVars(Return(c))

=============================================================================

-------------------------- MODULE RequestContract ---------------------------
(***************************************************************************)
(* What sendRequest promises to its callers, without invoke IDs, channels, *)
(* goroutines, connections or packets. Client implements it.               *)
(*                                                                         *)
(* A call is refused, or it is open and in the end returns one outcome:    *)
(* the request could not be sent; the caller's context was done; the       *)
(* connection was closed, if the client hung up on it; or an answer, which *)
(* is one to this very request as long as the invoke IDs are fresh.        *)
(***************************************************************************)
CONSTANTS Calls, None

VARIABLES phase,    \* "idle", "open" or "returned"
          asked,    \* calls whose request was sent
          hungUp,   \* calls the client has hung up on
          fresh,    \* no invoke ID has been used twice
          outcome,  \* what the call returns
          answer    \* the answer it returns

vars == <<phase, asked, hungUp, fresh, outcome, answer>>

Answers == [call: Calls, type: {"Ack", "Error"}]

Init ==
    /\ phase = [c \in Calls |-> "idle"]
    /\ asked = {}
    /\ hungUp = {}
    /\ fresh = TRUE
    /\ outcome = [c \in Calls |-> "none"]
    /\ answer = [c \in Calls |-> None]

Return(c, from, res) ==
    /\ phase[c] = from
    /\ phase' = [phase EXCEPT ![c] = "returned"]
    /\ outcome' = [outcome EXCEPT ![c] = res]
    /\ UNCHANGED <<asked, hungUp, fresh>>

Refuse(c) == Return(c, "idle", "ErrNotConnected") /\ UNCHANGED answer

Open(c) ==
    /\ phase[c] = "idle"
    /\ phase' = [phase EXCEPT ![c] = "open"]
    /\ UNCHANGED <<asked, hungUp, fresh, outcome, answer>>

\* Invoke IDs start to repeat; nothing makes them fresh again.
Age == fresh' = FALSE /\ UNCHANGED <<phase, asked, hungUp, outcome, answer>>

\* A request is sent at most once: there are no retries.
Ask(c) ==
    /\ phase[c] = "open" /\ c \notin asked
    /\ asked' = asked \cup {c}
    /\ UNCHANGED <<phase, hungUp, fresh, outcome, answer>>

SendFails(c) ==
    c \notin asked /\ Return(c, "open", "SendError") /\ UNCHANGED answer

GiveUp(c) == c \in asked /\ Return(c, "open", "ErrTimeout") /\ UNCHANGED answer

\* The client hangs up on calls that have begun and not on one twice.
HangUp(S) ==
    /\ \A c \in S : phase[c] # "idle" /\ c \notin hungUp
    /\ hungUp' = hungUp \cup S
    /\ UNCHANGED <<phase, asked, fresh, outcome, answer>>

Closed(c) ==
    /\ c \in asked \cap hungUp
    /\ Return(c, "open", "ErrConnectionClosed")
    /\ UNCHANGED answer

Answer(c, p) ==
    /\ c \in asked /\ p.call \in asked
    /\ fresh => p.call = c
    /\ Return(c, "open", IF p.type = "Ack" THEN "Succeeded" ELSE "Failed")
    /\ answer' = [answer EXCEPT ![c] = p]

Next ==
    \/ \E c \in Calls : \/ Refuse(c) \/ Open(c) \/ Ask(c)
                        \/ SendFails(c) \/ GiveUp(c) \/ Closed(c)
    \/ \E c \in Calls, p \in Answers : Answer(c, p)
    \/ \E S \in SUBSET Calls : HangUp(S)
    \/ Age

Spec == Init /\ [][Next]_vars

=============================================================================

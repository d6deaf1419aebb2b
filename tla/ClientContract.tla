--------------------------- MODULE ClientContract ---------------------------
(***************************************************************************)
(* Client implements RequestContract. A call whose outcome is decided and  *)
(* that has only its deferred delete left counts as returned.              *)
(***************************************************************************)
EXTENDS Client

Phase ==
    [r \in Calls |-> IF cpc[r] = "idle" THEN "idle"
                     ELSE IF cpc[r] \in {"returning", "returned"}
                     THEN "returned" ELSE "open"]

Contract ==
    INSTANCE RequestContract
    WITH phase <- Phase, asked <- sent, hungUp <- closed,
         fresh <- invokeID <= IDs, outcome <- result, answer <- resp

\* Whatever Connect, Close, the receivers and the handlers do meanwhile,
\* sendRequest keeps its contract: one outcome per call, an answer only to a
\* request that was sent and, until IDs repeat, only to the call's own;
\* ErrConnectionClosed only after Close closed the channel of that call.
KeepsContract == Contract!Spec

=============================================================================

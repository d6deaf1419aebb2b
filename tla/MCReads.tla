------------------------------- MODULE MCReads ------------------------------
(***************************************************************************)
(* The two calls that read several values, for TLC: an application makes   *)
(* one call, of ReadPropertyMultiple (ReadMultiple) or of GetObjectList    *)
(* (ObjectList). The state of the other call stays as it was.              *)
(***************************************************************************)
EXTENDS MCReadMultiple, ObjectList

VARIABLE call   \* the operation called

readsVars == <<vars, listVars, call>>

ReadsInit ==
    /\ Init
    /\ ListInit
    /\ call \in {"ReadPropertyMultiple", "GetObjectList"}
    /\ call = "ReadPropertyMultiple" => list = <<>>

ReadsNext ==
    \/ /\ call = "ReadPropertyMultiple"
       /\ Next
       /\ UNCHANGED <<listVars, call>>
    \/ /\ call = "GetObjectList"
       /\ ListNext
       /\ UNCHANGED <<vars, call>>

\* The fairness of the two specifications.
ReadsSpec ==
    /\ ReadsInit
    /\ [][ReadsNext]_readsVars
    /\ WF_readsVars(Decode /\ UNCHANGED <<listVars, call>>)
    /\ WF_readsVars(ReadLength /\ UNCHANGED <<vars, call>>)
    /\ WF_readsVars(Loop /\ UNCHANGED <<vars, call>>)

=============================================================================

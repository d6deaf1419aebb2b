----------------------------- MODULE ObjectList -----------------------------
(***************************************************************************)
(* GetObjectList (client.go) against a device whose object list may change *)
(* while it is read: element 0 of the list is its length, then every       *)
(* element is read with a request of its own. ReadProperty appears by what *)
(* it returns (PropertyService and Client have the rest of it).            *)
(***************************************************************************)
EXTENDS Integers, SequencesExt

CONSTANTS Objects,     \* object identifiers
          Width,       \* number of values of a uint32 (2^32 in the code)
          MaxLen,      \* bound on the length of the device's list
          MaxChanges   \* bound on the changes of that list

\* With Width - 1 objects, i <= length would hold for every uint32.
ASSUME MaxLenAssumption == MaxLen \in Nat /\ Width \in Nat /\ MaxLen < Width - 1
ASSUME MaxChangesAssumption == MaxChanges \in Nat

VARIABLES list,     \* the device's object-list
          changes,  \* how often it has changed
          pc,       \* "idle", "length", "element", "returned"
          length, i,\* the locals of the call
          objects,  \* identifiers appended so far
          err,      \* the error returned
          measured, \* history: the list as its length was read
          skipped,  \* history: elements whose read failed
          deleted   \* history: objects deleted at the device

listVars == <<list, changes, pc, length, i, objects, err, measured, skipped,
              deleted>>
device == <<list, changes, deleted>>

Lists == {s \in BoundedSeq(Objects, MaxLen) : IsInjective(s)}

ListInit ==
    /\ list \in Lists
    /\ changes = 0
    /\ pc = "idle"
    /\ length = 0 /\ i = 0
    /\ objects = <<>>
    /\ err = "nil"
    /\ measured = <<>>
    /\ skipped = {}
    /\ deleted = {}

\* An object is created or deleted at the device.
Change ==
    /\ changes < MaxChanges
    /\ changes' = changes + 1
    /\ \/ \E o \in Objects \ Range(list) :
            /\ Len(list) < MaxLen
            /\ list' = Append(list, o)
            /\ UNCHANGED deleted
       \/ \E k \in DOMAIN list :
            /\ list' = RemoveAt(list, k)
            /\ deleted' = deleted \cup {list[k]}
    /\ UNCHANGED <<pc, length, i, objects, err, measured, skipped>>

GetObjectList ==
    /\ pc = "idle"
    /\ pc' = "length"
    /\ UNCHANGED <<device, length, i, objects, err, measured, skipped>>

\* ReadProperty(..., WithArrayIndex(0)) gives the length, a value of another
\* type, or an error.
ReadLength ==
    /\ pc = "length"
    /\ \/ /\ length' = Len(list)
          /\ i' = 1
          /\ measured' = list
          /\ pc' = "element"
          /\ UNCHANGED err
       \/ /\ err' \in {"unexpected type", "read"}
          /\ pc' = "returned"
          /\ UNCHANGED <<length, i, measured>>
    /\ UNCHANGED <<device, objects, skipped>>

\* i <= length
More == i <= length

\* Mutant: a failed element is tried again.
AdvanceIfRead == i' = IF i \in skipped' THEN i ELSE (i + 1) % Width

Advance == i' = (i + 1) % Width

\* An element is read as the list is now; index 0 is the length, and no
\* identifier.
ReadElement ==
    /\ pc = "element" /\ More
    /\ i \in 0..Len(list)
    /\ objects' = IF i = 0 THEN objects ELSE Append(objects, list[i])
    /\ UNCHANGED <<device, pc, length, err, measured, skipped>>
    /\ Advance

\* Mutant: the value of the previous element is appended once more.
ElementFailsStale ==
    /\ pc = "element" /\ More
    /\ skipped' = skipped \cup {i}
    /\ objects' = IF objects = <<>> THEN objects
                  ELSE Append(objects, Last(objects))
    /\ UNCHANGED <<device, pc, length, err, measured>>
    /\ Advance

\* An error (the device has no such element any more, no answer in time, the
\* context is done) or a value of another type: the loop goes on.
ElementFails ==
    /\ pc = "element" /\ More
    /\ skipped' = skipped \cup {i}
    /\ UNCHANGED <<device, pc, length, objects, err, measured>>
    /\ Advance

ReturnList ==
    /\ pc = "element" /\ ~More
    /\ pc' = "returned"
    /\ UNCHANGED <<device, length, i, objects, err, measured, skipped>>

Loop == ReadElement \/ ElementFails \/ ReturnList

ListNext == Change \/ GetObjectList \/ ReadLength \/ Loop

\* Each ReadProperty returns: the caller's context has a deadline.
ListSpec == ListInit /\ [][ListNext]_listVars
            /\ WF_listVars(ReadLength) /\ WF_listVars(Loop)

-----------------------------------------------------------------------------
\* objects is the list as it was when its length was read, up to element n and
\* without the elements skipped, in order.
ListedUpTo(n) ==
    \E read \in [1..Len(objects) -> 1..n] :
        /\ \A j, k \in DOMAIN read : j < k => read[j] < read[k]
        /\ Range(read) = (1..n) \ skipped
        /\ objects = [k \in DOMAIN read |-> measured[read[k]]]

\* As long as the device deletes nothing, what is returned with no error is
\* the list as it was when its length was read, without the elements whose
\* read failed, in order: none of the others is lost, doubled or moved.
ListedInOrder ==
    pc = "returned" /\ err = "nil" /\ deleted = {} => ListedUpTo(length)

\* GetObjectList returns, however many of the reads fail.
Terminates == pc = "length" ~> pc = "returned"

=============================================================================

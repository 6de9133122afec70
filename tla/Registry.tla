------------------------------ MODULE Registry ------------------------------
(***************************************************************************)
(* The MeasurementRegistry account: the governor's list of enclave images. *)
(* programs/solora/src/state.rs gives its shape and lookups, the handlers  *)
(* add_measurement and revoke_measurement of lib.rs the ways its list      *)
(* changes.  Entries are only ever appended, so the fixed array with its   *)
(* count is a sequence here; labels and added_slot decide nothing.         *)
(***************************************************************************)
EXTENDS Integers, Sequences

CONSTANTS
    Measurements,       \* image hashes (pcr_hash)
    MaxMeasurements     \* MAX_MEASUREMENTS, 8 in the code

ASSUME MaxMeasurementsAssumption == MaxMeasurements \in Nat \ {0}

EntryType == [measurement : Measurements, status : {"active", "revoked"}]

\* MeasurementRegistry::find_any, as a test.
Present(entries, m) ==
    \E i \in 1..Len(entries) : entries[i].measurement = m

\* find_any's answer: the first entry for m.
IndexOf(entries, m) ==
    CHOOSE i \in 1..Len(entries) :
        /\ entries[i].measurement = m
        /\ \A j \in 1..(i - 1) : entries[j].measurement # m

\* The lookup of register_enclave_v2: the entry for m is there and is active.
IsActive(entries, m) ==
    /\ Present(entries, m)
    /\ entries[IndexOf(entries, m)].status = "active"

\* The guards of add_measurement after the governor's: no entry for m, revoked
\* ones included, and a free slot.
MayAddMeasurement(entries, m) ==
    /\ ~Present(entries, m)
    /\ Len(entries) < MaxMeasurements

WithMeasurement(entries, m) ==
    Append(entries, [measurement |-> m, status |-> "active"])

\* Mutant of WithRevoked: revoking frees the slot, as the text of
\* MeasurementRegistryFull supposes.
WithRevokedFreed(entries, m) ==
    SelectSeq(entries, LAMBDA e : e.measurement # m)

\* The slot stays in use, only its status changes.
WithRevoked(entries, m) ==
    [entries EXCEPT ![IndexOf(entries, m)].status = "revoked"]

-----------------------------------------------------------------------------

\* No measurement has two entries.
Distinct(entries) ==
    \A i, j \in 1..Len(entries) :
        entries[i].measurement = entries[j].measurement => i = j
=============================================================================

----------------------------- MODULE SwapList ------------------------------
(***************************************************************************)
(* The list in an account's data (state/list.rs), used by StakeSystem and  *)
(* ValidatorSystem.  Items lie side by side and the last one is moved into *)
(* the gap that a removal leaves, so an index that a caller read a moment  *)
(* ago may be another record's, or nobody's, when its instruction runs.    *)
(* Callers therefore name the address as well, and may name any index.     *)
(***************************************************************************)
EXTENDS Integers, FiniteSets

CONSTANTS Address, Value, Capacities,
          Blank      \* the item that zero bytes make, of no address

VARIABLES count,     \* List.count
          data,      \* the account's data: index -> item, 0 .. capacity - 1
          call       \* the last call: its name and what it named

ASSUME SwapListAssumption == Capacities \subseteq Nat

vars == <<count, data, call>>

blank_data(size) == [i \in 0 .. size - 1 |-> Blank]

item(a, value) == [address |-> a, value |-> value]

capacity(bytes) == Cardinality(DOMAIN bytes)

\* The indices of the items
Indices == 0 .. count - 1

---------------------------------------------------------------------------
(* list.rs, on the count and the bytes                                     *)

set(bytes, i, new) == [bytes EXCEPT ![i] = new]

\* A variant: the gap is filled with the last item but one
remove_off_by_one(bytes, i, n) ==
  IF i = n - 1 \/ n < 2 THEN bytes ELSE [bytes EXCEPT ![i] = bytes[n - 2]]

\* copy_within: the last item, at position n - 1, is moved to position i
remove(bytes, i, n) ==
  IF i = n - 1 THEN bytes ELSE [bytes EXCEPT ![i] = bytes[n - 1]]

\* StakeSystem::get_checked, ValidatorSystem::get_checked
get_checked(i, a) == i \in Indices /\ data[i].address = a

---------------------------------------------------------------------------
(* How the instructions use the list                                       *)

SwapListInit ==
  /\ count = 0
  /\ \E size \in Capacities : data = blank_data(size)
  /\ call = <<"new">>

\* add: the address is new, for a stake account has just been created or has
\* just left its owner, and a validator has just got its duplication flag.
Add(a, value) ==
  /\ \A i \in Indices : data[i].address # a
  /\ count < capacity(data)
  /\ data' = set(data, count, item(a, value))
  /\ count' = count + 1
  /\ call' = <<"add", a, value>>

SetChecked(i, a, value) ==
  /\ get_checked(i, a)
  /\ data' = set(data, i, item(a, value))
  /\ call' = <<"set", a, value>>
  /\ UNCHANGED count

RemoveChecked(i, a) ==
  /\ get_checked(i, a)
  /\ data' = remove(data, i, count)
  /\ count' = count - 1
  /\ call' = <<"remove", a>>

\* A variant: the source is removed first
merged_after_removal(i, a, j, value) ==
  set(remove(data, j, count), i, item(a, value))

\* merge_stakes.rs writes the destination first and removes the source last
\* "because of index invalidation".
merged(i, a, j, value) == remove(set(data, i, item(a, value)), j, count)

MergeChecked(i, a, j, b) ==
  /\ get_checked(i, a) /\ get_checked(j, b) /\ a # b
  /\ data[i].value + data[j].value \in Value
  /\ data' = merged(i, a, j, data[i].value + data[j].value)
  /\ count' = count - 1
  /\ call' = <<"merge", a, b>>

\* A variant: the account shrinks below its contents
Realloc_shrinking(size) ==
  /\ data' = [i \in 0 .. size - 1 |->
                IF i < capacity(data) THEN data[i] ELSE Blank]
  /\ UNCHANGED <<count, call>>

\* realloc_stake_list.rs, realloc_validator_list.rs: the items stay where they
\* are, new bytes are zero.
Realloc(size) ==
  /\ size >= count
  /\ data' = [i \in 0 .. size - 1 |->
                IF i < capacity(data) THEN data[i] ELSE Blank]
  /\ UNCHANGED <<count, call>>

AnyIndex == 0 .. capacity(data)    \* what callers name: one beyond is enough

SwapListNext ==
  \/ \E a \in Address, value \in Value : Add(a, value)
  \/ \E i \in AnyIndex, a \in Address, value \in Value :
       SetChecked(i, a, value)
  \/ \E i \in AnyIndex, a \in Address : RemoveChecked(i, a)
  \/ \E i, j \in AnyIndex, a, b \in Address : MergeChecked(i, a, j, b)
  \/ \E size \in Capacities : Realloc(size)

SwapListSpec == SwapListInit /\ [][SwapListNext]_vars

---------------------------------------------------------------------------
(* The records by address                                                  *)

listed(bytes, n) == {bytes[i].address : i \in 0 .. n - 1}

index_of(bytes, n, a) == CHOOSE i \in 0 .. n - 1 : bytes[i].address = a

records_in(bytes, n) ==
  [a \in listed(bytes, n) |-> bytes[index_of(bytes, n, a)].value]

Records == INSTANCE RecordSet WITH records <- records_in(data, count)

\* An address has one record, so that "the record of this stake account" means
\* something; the stale item behind the last one is not counted.
AddressesAreUnique ==
  \A i, j \in Indices : data[i].address = data[j].address => i = j

\* Whatever index a caller read and whatever was removed since, an instruction
\* changes the record it names and no other, and no record is lost by the
\* move of the last one: the list is the set of records that MarinadeState
\* takes it for.
ImplementsRecordSet == Records!RecordSetSpec

\* The items fit into the account.
CountFits == count \in 0 .. capacity(data)
============================================================================

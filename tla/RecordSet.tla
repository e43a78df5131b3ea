----------------------------- MODULE RecordSet -----------------------------
(***************************************************************************)
(* What the stake list and the validator list promise to the instructions: *)
(* a set of records, one for each address, in no order, of which a call    *)
(* changes the ones it names.  MarinadeState keeps both lists in this      *)
(* form; SwapList implements it.                                           *)
(***************************************************************************)
EXTENDS Integers

CONSTANTS Address, Value

VARIABLES records,     \* address -> value, for the addresses in the list
          call         \* the last call: its name and what it named

recordSetVars == <<records, call>>

RecordSetInit == records = [a \in {} |-> 0] /\ call = <<"new">>

Insert(a, value) ==
  /\ a \notin DOMAIN records
  /\ records' = [b \in DOMAIN records \cup {a} |->
                   IF b = a THEN value ELSE records[b]]
  /\ call' = <<"add", a, value>>

Update(a, value) ==
  /\ a \in DOMAIN records
  /\ records' = [records EXCEPT ![a] = value]
  /\ call' = <<"set", a, value>>

Delete(a) ==
  /\ a \in DOMAIN records
  /\ records' = [b \in DOMAIN records \ {a} |-> records[b]]
  /\ call' = <<"remove", a>>

\* merge_stakes: one record takes in another one
Absorb(a, b) ==
  /\ {a, b} \subseteq DOMAIN records /\ a # b
  /\ records' = [c \in DOMAIN records \ {b} |->
                   IF c = a THEN records[a] + records[b] ELSE records[c]]
  /\ call' = <<"merge", a, b>>

RecordSetNext ==
  \/ \E a \in Address, value \in Value : Insert(a, value) \/ Update(a, value)
  \/ \E a \in Address : Delete(a)
  \/ \E a, b \in Address : Absorb(a, b)

RecordSetSpec == RecordSetInit /\ [][RecordSetNext]_recordSetVars
============================================================================

--------------------------- MODULE SwapListProofs --------------------------
(***************************************************************************)
(* The list of state/list.rs, of any capacity and with any addresses, is a *)
(* set of records: every call of SwapList is a call of RecordSet.  The     *)
(* lemmas speak of any bytes and any count, so that merge_stakes, which    *)
(* writes and then removes, uses two of them in a row.                     *)
(***************************************************************************)
EXTENDS SwapList, FiniteSetTheorems, TLAPS

Item == [address : Address, value : Value] \cup {Blank}

\* No two of the first n items have an address in common.
Unique(bytes, n) ==
  \A i, j \in 0 .. n - 1 : bytes[i].address = bytes[j].address => i = j

\* bytes are data with room for the given number of items, n of them in use
IsList(bytes, size, n) ==
  /\ size \in Nat /\ n \in 0 .. size
  /\ bytes \in [0 .. size - 1 -> Item]
  /\ Unique(bytes, n)
  /\ \A i \in 0 .. n - 1 : bytes[i] \in [address : Address, value : Value]

ListInv == IsList(data, capacity(data), count)

---------------------------------------------------------------------------
(* The records of a list                                                   *)

\* An item that is counted is the record of its address.
LEMMA RecordOfItem ==
  ASSUME NEW bytes, NEW n \in Nat, Unique(bytes, n), NEW i \in 0 .. n - 1
  PROVE  /\ bytes[i].address \in listed(bytes, n)
         /\ records_in(bytes, n)[bytes[i].address] = bytes[i].value
<1> DEFINE a == bytes[i].address
           j == index_of(bytes, n, a)
<1>1. a \in listed(bytes, n)
  BY DEF listed
<1>2. j \in 0 .. n - 1 /\ bytes[j].address = a
  BY DEF index_of
<1>3. j = i
  BY <1>2 DEF Unique
<1> QED BY <1>1, <1>3 DEF records_in

\* Two ways to list the same records
LEMMA SameRecords ==
  ASSUME NEW bytes, NEW n \in Nat, Unique(bytes, n), NEW r,
         r = [a \in DOMAIN r |-> r[a]],
         DOMAIN r = listed(bytes, n),
         \A i \in 0 .. n - 1 : r[bytes[i].address] = bytes[i].value
  PROVE  records_in(bytes, n) = r
<1>1. ASSUME NEW a \in listed(bytes, n) PROVE records_in(bytes, n)[a] = r[a]
  <2>1. PICK i \in 0 .. n - 1 : a = bytes[i].address
    BY DEF listed
  <2> QED BY <2>1, RecordOfItem
<1>2. records_in(bytes, n) = [a \in listed(bytes, n) |-> records_in(bytes, n)[a]]
  BY DEF records_in
<1> QED BY <1>1, <1>2

\* An address is listed where its item is.
LEMMA Listed ==
  ASSUME NEW bytes, NEW n
  PROVE  /\ DOMAIN records_in(bytes, n) = listed(bytes, n)
         /\ \A a : a \in listed(bytes, n)
                     <=> \E i \in 0 .. n - 1 : bytes[i].address = a
BY DEF records_in, listed

LEMMA CapacityOfData ==
  ASSUME NEW size \in Nat, NEW bytes \in [0 .. size - 1 -> Item]
  PROVE  capacity(bytes) = size
<1>1. Cardinality(0 .. size - 1) = size
  BY FS_Interval
<1> QED BY <1>1 DEF capacity

LEMMA ItemTypes ==
  ASSUME NEW a \in Address, NEW value \in Value
  PROVE  /\ item(a, value) \in [address : Address, value : Value]
         /\ item(a, value) \in Item
         /\ item(a, value).address = a /\ item(a, value).value = value
BY DEF item, Item

---------------------------------------------------------------------------
(* push, set and remove                                                    *)

LEMMA PushKeeps ==
  ASSUME NEW bytes, NEW size, NEW n, IsList(bytes, size, n), n < size,
         NEW a \in Address, a \notin listed(bytes, n), NEW value \in Value
  PROVE  LET after == set(bytes, n, item(a, value))
             old == records_in(bytes, n)
         IN  /\ IsList(after, size, n + 1)
             /\ records_in(after, n + 1) =
                  [b \in DOMAIN old \cup {a} |->
                     IF b = a THEN value ELSE old[b]]
<1> DEFINE after == set(bytes, n, item(a, value))
           old == records_in(bytes, n)
           new == [b \in DOMAIN old \cup {a} |-> IF b = a THEN value ELSE old[b]]
<1>1. /\ size \in Nat /\ n \in Nat /\ n + 1 \in 0 .. size
      /\ n \in 0 .. size - 1
      /\ bytes \in [0 .. size - 1 -> Item]
  BY DEF IsList
<1>2. /\ after \in [0 .. size - 1 -> Item]
      /\ after[n] = item(a, value)
      /\ \A i \in 0 .. n - 1 : after[i] = bytes[i]
  BY <1>1, ItemTypes DEF set
<1> HIDE DEF after
<1>3. \A i \in 0 .. n : i = n \/ i \in 0 .. n - 1
  BY <1>1
<1>4. \A i \in 0 .. n - 1 : after[i].address # a
  BY <1>2, Listed
<1>5. after[n].address = a /\ after[n].value = value
  BY <1>2, ItemTypes
<1>6. \A i, j \in 0 .. n : after[i].address = after[j].address => i = j
  <2>1. \A i, j \in 0 .. n - 1 : after[i].address = after[j].address => i = j
    BY <1>2 DEF IsList, Unique
  <2> QED BY <2>1, <1>3, <1>4, <1>5
<1>7. (n + 1) - 1 = n
  BY <1>1
<1>8. IsList(after, size, n + 1)
  <2>1. \A i \in 0 .. n : after[i] \in [address : Address, value : Value]
    BY <1>2, <1>3, ItemTypes DEF IsList
  <2> QED BY <1>1, <1>2, <1>6, <1>7, <2>1 DEF IsList, Unique
<1>9. listed(after, n + 1) = listed(bytes, n) \cup {a}
  <2>1. ASSUME NEW b PROVE b \in listed(after, n + 1)
                             <=> b \in listed(bytes, n) \/ b = a
    <3>1. b \in listed(after, n + 1)
            <=> \E i \in 0 .. n : after[i].address = b
      BY <1>7, Listed
    <3>2. b \in listed(bytes, n)
            <=> \E i \in 0 .. n - 1 : bytes[i].address = b
      BY Listed
    <3>3. n \in 0 .. n /\ 0 .. n - 1 \subseteq 0 .. n
      BY <1>1
    <3> QED BY <3>1, <3>2, <3>3, <1>2, <1>3, <1>5
  <2> QED BY <2>1
<1>10. DOMAIN old = listed(bytes, n)
  BY Listed
<1>11. \A i \in 0 .. n - 1 : old[bytes[i].address] = bytes[i].value
                             /\ bytes[i].address \in DOMAIN old
  BY <1>1, <1>10, RecordOfItem DEF IsList
<1> HIDE DEF old
<1>12. \A i \in 0 .. n : new[after[i].address] = after[i].value
  <2>1. new[after[n].address] = after[n].value
    BY <1>5
  <2>2. ASSUME NEW i \in 0 .. n - 1
        PROVE  new[after[i].address] = after[i].value
    BY <1>2, <1>4, <1>11
  <2> QED BY <1>3, <2>1, <2>2
<1>13. /\ DOMAIN new = listed(after, n + 1)
       /\ new = [b \in DOMAIN new |-> new[b]]
  BY <1>9, <1>10
<1> HIDE DEF new
<1>14. records_in(after, n + 1) = new
  <2>1. Unique(after, n + 1) /\ n + 1 \in Nat
    BY <1>1, <1>8 DEF IsList
  <2> QED BY <1>7, <1>12, <1>13, <2>1, SameRecords
<1> QED BY <1>8, <1>14 DEF new, old, after

LEMMA SetKeeps ==
  ASSUME NEW bytes, NEW size, NEW n, IsList(bytes, size, n),
         NEW k \in 0 .. n - 1, NEW a \in Address, bytes[k].address = a,
         NEW value \in Value
  PROVE  LET after == set(bytes, k, item(a, value))
             old == records_in(bytes, n)
         IN  /\ IsList(after, size, n)
             /\ after[k].address = a
             /\ \A i \in 0 .. n - 1 : after[i].address = bytes[i].address
             /\ a \in DOMAIN old
             /\ records_in(after, n) = [old EXCEPT ![a] = value]
<1> DEFINE after == set(bytes, k, item(a, value))
           old == records_in(bytes, n)
           new == [b \in DOMAIN old |-> IF b = a THEN value ELSE old[b]]
<1>1. /\ size \in Nat /\ n \in Nat /\ n \in 0 .. size
      /\ 0 .. n - 1 \subseteq 0 .. size - 1
      /\ bytes \in [0 .. size - 1 -> Item]
  BY DEF IsList
<1>2. /\ after \in [0 .. size - 1 -> Item]
      /\ after[k] = item(a, value)
      /\ \A i \in 0 .. n - 1 : i # k => after[i] = bytes[i]
  BY <1>1, ItemTypes DEF set
<1> HIDE DEF after
<1>3. after[k].address = a /\ after[k].value = value
  BY <1>2, ItemTypes
<1>4. \A i \in 0 .. n - 1 : after[i].address = bytes[i].address
  BY <1>2, <1>3
<1>5. IsList(after, size, n)
  <2>1. Unique(after, n)
    BY <1>4 DEF IsList, Unique
  <2>2. \A i \in 0 .. n - 1 : after[i] \in [address : Address, value : Value]
    BY <1>2, ItemTypes DEF IsList
  <2> QED BY <1>1, <1>2, <2>1, <2>2 DEF IsList
<1>6. listed(after, n) = listed(bytes, n)
  <2>1. \A b : b \in listed(after, n) <=> b \in listed(bytes, n)
    BY <1>4, Listed
  <2> QED BY <2>1
<1>7. DOMAIN old = listed(bytes, n)
  BY Listed
<1>8. \A i \in 0 .. n - 1 : old[bytes[i].address] = bytes[i].value
                            /\ bytes[i].address \in DOMAIN old
  BY <1>1, <1>7, RecordOfItem DEF IsList
<1>9. \A i \in 0 .. n - 1 : bytes[i].address = a => i = k
  BY DEF IsList, Unique
<1>10. old = [b \in DOMAIN old |-> old[b]]
  BY DEF records_in
<1>11. new = [old EXCEPT ![a] = value]
  <2> HIDE DEF old
  <2> QED BY <1>10
<1> HIDE DEF old
<1>12. \A i \in 0 .. n - 1 : new[after[i].address] = after[i].value
  BY <1>2, <1>3, <1>4, <1>8, <1>9
<1>13. /\ DOMAIN new = listed(after, n)
       /\ new = [b \in DOMAIN new |-> new[b]]
  BY <1>6, <1>7
<1> HIDE DEF new
<1>14. records_in(after, n) = new
  <2>1. Unique(after, n)
    BY <1>5 DEF IsList
  <2> QED BY <1>1, <1>12, <1>13, <2>1, SameRecords
<1>15. a \in DOMAIN old
  BY <1>8
<1> QED BY <1>3, <1>4, <1>5, <1>11, <1>14, <1>15 DEF old, after

LEMMA RemoveKeeps ==
  ASSUME NEW bytes, NEW size, NEW n, IsList(bytes, size, n),
         NEW k \in 0 .. n - 1
  PROVE  LET after == remove(bytes, k, n)
             old == records_in(bytes, n)
             a == bytes[k].address
         IN  /\ IsList(after, size, n - 1)
             /\ a \in DOMAIN old
             /\ records_in(after, n - 1) =
                  [b \in DOMAIN old \ {a} |-> old[b]]
<1> DEFINE after == remove(bytes, k, n)
           old == records_in(bytes, n)
           a == bytes[k].address
           new == [b \in DOMAIN old \ {a} |-> old[b]]
           \* where the item that is now at position i was
           was(i) == IF i = k THEN n - 1 ELSE i
<1>1. /\ size \in Nat /\ n \in Nat /\ n \in 0 .. size
      /\ n - 1 \in Nat /\ n - 1 \in 0 .. size
      /\ n - 1 \in 0 .. n - 1
      /\ 0 .. n - 1 \subseteq 0 .. size - 1
      /\ bytes \in [0 .. size - 1 -> Item]
  BY DEF IsList
<1>2. /\ after \in [0 .. size - 1 -> Item]
      /\ \A i \in 0 .. (n - 1) - 1 : after[i] = bytes[was(i)]
  BY <1>1 DEF remove
<1>3. /\ \A i \in 0 .. (n - 1) - 1 : was(i) \in 0 .. n - 1 /\ was(i) # k
      /\ \A i, j \in 0 .. (n - 1) - 1 : was(i) = was(j) => i = j
      /\ \A j \in 0 .. n - 1 : j # k =>
           \E i \in 0 .. (n - 1) - 1 : j = was(i)
  <2>1. \A i \in 0 .. (n - 1) - 1 : was(i) \in 0 .. n - 1 /\ was(i) # k
    BY <1>1
  <2>2. \A i, j \in 0 .. (n - 1) - 1 : was(i) = was(j) => i = j
    BY <1>1
  <2>3. ASSUME NEW j \in 0 .. n - 1, j # k
        PROVE  \E i \in 0 .. (n - 1) - 1 : j = was(i)
    <3>1. CASE j = n - 1
      BY <1>1, <2>3, <3>1
    <3>2. CASE j # n - 1
      <4>1. j \in 0 .. (n - 1) - 1 /\ was(j) = j
        BY <1>1, <2>3, <3>2
      <4> QED BY <4>1
    <3> QED BY <3>1, <3>2
  <2> QED BY <2>1, <2>2, <2>3
<1> HIDE DEF after, was
<1>4. \A i, j \in 0 .. n - 1 : bytes[i].address = bytes[j].address => i = j
  BY DEF IsList, Unique
<1>5. IsList(after, size, n - 1)
  <2>1. Unique(after, n - 1)
    <3>1. ASSUME NEW i \in 0 .. (n - 1) - 1, NEW j \in 0 .. (n - 1) - 1,
                 after[i].address = after[j].address
          PROVE  i = j
      <4>1. bytes[was(i)].address = bytes[was(j)].address
        BY <1>2, <3>1
      <4>2. was(i) = was(j)
        BY <1>3, <1>4, <4>1
      <4> QED BY <1>3, <4>2
    <3> QED BY <3>1 DEF Unique
  <2>2. \A i \in 0 .. (n - 1) - 1 :
          after[i] \in [address : Address, value : Value]
    BY <1>2, <1>3 DEF IsList
  <2> QED BY <1>1, <1>2, <2>1, <2>2 DEF IsList
<1>6. DOMAIN old = listed(bytes, n)
  BY Listed
<1>7. \A i \in 0 .. n - 1 : old[bytes[i].address] = bytes[i].value
                            /\ bytes[i].address \in DOMAIN old
  BY <1>1, <1>6, RecordOfItem DEF IsList
<1>8. listed(after, n - 1) = DOMAIN old \ {a}
  <2>1. ASSUME NEW b PROVE b \in listed(after, n - 1)
                             <=> b \in listed(bytes, n) /\ b # a
    <3>1. b \in listed(after, n - 1)
            <=> \E i \in 0 .. (n - 1) - 1 : after[i].address = b
      BY Listed
    <3>2. b \in listed(bytes, n)
            <=> \E j \in 0 .. n - 1 : bytes[j].address = b
      BY Listed
    <3>3. ASSUME NEW i \in 0 .. (n - 1) - 1, after[i].address = b
          PROVE  b \in listed(bytes, n) /\ b # a
      <4>1. bytes[was(i)].address = b /\ was(i) \in 0 .. n - 1 /\ was(i) # k
        BY <1>2, <1>3, <3>3
      <4> QED BY <3>2, <4>1, <1>4
    <3>4. ASSUME NEW j \in 0 .. n - 1, bytes[j].address = b, b # a
          PROVE  \E i \in 0 .. (n - 1) - 1 : after[i].address = b
      <4>1. PICK i \in 0 .. (n - 1) - 1 : j = was(i)
        BY <1>3, <3>4
      <4> QED BY <1>2, <3>4, <4>1
    <3> QED BY <3>1, <3>2, <3>3, <3>4
  <2> QED BY <1>6, <2>1
<1> HIDE DEF old
<1>9. \A i \in 0 .. (n - 1) - 1 : new[after[i].address] = after[i].value
  <2>1. ASSUME NEW i \in 0 .. (n - 1) - 1
        PROVE  new[after[i].address] = after[i].value
    <3>1. /\ after[i] = bytes[was(i)]
          /\ was(i) \in 0 .. n - 1 /\ was(i) # k
      BY <1>2, <1>3
    <3>2. bytes[was(i)].address # a
      BY <1>4, <3>1
    <3> QED BY <1>7, <3>1, <3>2
  <2> QED BY <2>1
<1>10. /\ DOMAIN new = listed(after, n - 1)
       /\ new = [b \in DOMAIN new |-> new[b]]
  BY <1>8
<1> HIDE DEF new
<1>11. records_in(after, n - 1) = new
  <2>1. Unique(after, n - 1)
    BY <1>5 DEF IsList
  <2> QED BY <1>1, <1>9, <1>10, <2>1, SameRecords
<1>12. a \in DOMAIN old
  BY <1>7
<1> QED BY <1>5, <1>11, <1>12 DEF new, old, after

\* What a longer or shorter account keeps of the items, it keeps of the records.
LEMMA ReallocKeeps ==
  ASSUME NEW bytes, NEW size, NEW n, IsList(bytes, size, n),
         NEW newSize \in Nat, n <= newSize
  PROVE  LET after == [i \in 0 .. newSize - 1 |->
                         IF i < size THEN bytes[i] ELSE Blank]
         IN  /\ IsList(after, newSize, n)
             /\ records_in(after, n) = records_in(bytes, n)
<1> DEFINE after == [i \in 0 .. newSize - 1 |->
                       IF i < size THEN bytes[i] ELSE Blank]
           old == records_in(bytes, n)
<1>1. /\ size \in Nat /\ n \in Nat /\ n \in 0 .. newSize
      /\ bytes \in [0 .. size - 1 -> Item]
  BY DEF IsList
<1>2. after \in [0 .. newSize - 1 -> Item]
  <2>1. ASSUME NEW i \in 0 .. newSize - 1
        PROVE  (IF i < size THEN bytes[i] ELSE Blank) \in Item
    <3>1. CASE i < size
      <4>1. i \in 0 .. size - 1
        BY <1>1, <3>1
      <4> QED BY <1>1, <3>1, <4>1
    <3>2. CASE ~ (i < size)
      BY <3>2 DEF Item
    <3> QED BY <3>1, <3>2
  <2> QED BY <2>1
<1>3. \A i \in 0 .. n - 1 : after[i] = bytes[i]
  <2>1. ASSUME NEW i \in 0 .. n - 1
        PROVE  i \in 0 .. newSize - 1 /\ i < size
    BY <1>1 DEF IsList
  <2> QED BY <2>1
<1> HIDE DEF after
<1>4. IsList(after, newSize, n)
  <2>1. Unique(after, n)
    BY <1>3 DEF IsList, Unique
  <2>2. \A i \in 0 .. n - 1 : after[i] \in [address : Address, value : Value]
    BY <1>3 DEF IsList
  <2> QED BY <1>1, <1>2, <2>1, <2>2 DEF IsList
<1>5. DOMAIN old = listed(after, n)
  <2>1. \A b : b \in listed(after, n) <=> b \in listed(bytes, n)
    BY <1>3, Listed
  <2>2. listed(after, n) = listed(bytes, n)
    BY <2>1
  <2>3. DOMAIN old = listed(bytes, n)
    BY Listed
  <2> QED BY <2>2, <2>3
<1>6. \A i \in 0 .. n - 1 : old[after[i].address] = after[i].value
  BY <1>1, <1>3, RecordOfItem DEF IsList
<1>7. old = [b \in DOMAIN old |-> old[b]]
  BY DEF records_in
<1> HIDE DEF old
<1>8. records_in(after, n) = old
  <2>1. Unique(after, n)
    BY <1>4 DEF IsList
  <2> QED BY <1>1, <1>5, <1>6, <1>7, <2>1, SameRecords
<1> QED BY <1>4, <1>8 DEF after, old

---------------------------------------------------------------------------
(* The calls                                                               *)

RecordStep == Records!RecordSetNext \/ UNCHANGED Records!recordSetVars

\* The account has room for what is in it.
LEMMA RoomForData ==
  ASSUME NEW bytes, NEW size, NEW n, IsList(bytes, size, n)
  PROVE  IsList(bytes, capacity(bytes), n)
BY CapacityOfData DEF IsList

LEMMA InitIsEmpty ==
  ASSUME SwapListInit
  PROVE  ListInv /\ Records!RecordSetInit
<1>1. PICK size \in Capacities : data = blank_data(size)
  BY DEF SwapListInit
<1>2. size \in Nat /\ count = 0 /\ call = <<"new">>
  BY SwapListAssumption DEF SwapListInit
<1>3. data \in [0 .. size - 1 -> Item]
  BY <1>1 DEF blank_data, Item
<1>4. 0 .. count - 1 = {}
  BY <1>2
<1>5. IsList(data, size, count)
  BY <1>2, <1>3, <1>4 DEF IsList, Unique
<1>6. records_in(data, count) = [a \in {} |-> 0]
  <2>1. listed(data, count) = {}
    BY <1>4 DEF listed
  <2> QED BY <2>1 DEF records_in
<1> QED BY <1>2, <1>5, <1>6, RoomForData DEF ListInv, Records!RecordSetInit

LEMMA AddInserts ==
  ASSUME ListInv, NEW a \in Address, NEW value \in Value, Add(a, value)
  PROVE  ListInv' /\ Records!Insert(a, value)
<1>1. a \notin listed(data, count)
  BY Listed DEF Add, Indices
<1>2. count < capacity(data)
  BY DEF Add
<1>3. /\ IsList(data', capacity(data), count')
      /\ records_in(data', count') =
           [b \in DOMAIN records_in(data, count) \cup {a} |->
              IF b = a THEN value ELSE records_in(data, count)[b]]
  BY <1>1, <1>2, PushKeeps DEF ListInv, Add
<1>4. ListInv'
  BY <1>3, RoomForData DEF ListInv
<1> QED BY <1>1, <1>3, <1>4, Listed DEF Records!Insert, Add

LEMMA SetUpdates ==
  ASSUME ListInv, NEW i, NEW a \in Address, NEW value \in Value,
         SetChecked(i, a, value)
  PROVE  ListInv' /\ Records!Update(a, value)
<1>1. i \in 0 .. count - 1 /\ data[i].address = a
  BY DEF SetChecked, get_checked, Indices
<1>2. /\ IsList(data', capacity(data), count')
      /\ a \in DOMAIN records_in(data, count)
      /\ records_in(data', count') =
           [records_in(data, count) EXCEPT ![a] = value]
  BY <1>1, SetKeeps DEF ListInv, SetChecked
<1>3. ListInv'
  BY <1>2, RoomForData DEF ListInv
<1> QED BY <1>2, <1>3 DEF Records!Update, SetChecked

LEMMA RemoveDeletes ==
  ASSUME ListInv, NEW i, NEW a \in Address, RemoveChecked(i, a)
  PROVE  ListInv' /\ Records!Delete(a)
<1>1. i \in 0 .. count - 1 /\ data[i].address = a
  BY DEF RemoveChecked, get_checked, Indices
<1>2. /\ IsList(data', capacity(data), count')
      /\ a \in DOMAIN records_in(data, count)
      /\ records_in(data', count') =
           [b \in DOMAIN records_in(data, count) \ {a} |->
              records_in(data, count)[b]]
  BY <1>1, RemoveKeeps DEF ListInv, RemoveChecked
<1>3. ListInv'
  BY <1>2, RoomForData DEF ListInv
<1> QED BY <1>2, <1>3 DEF Records!Delete, RemoveChecked

\* The destination is written before the source's index is used, and setting a
\* record moves no other.
LEMMA MergeAbsorbs ==
  ASSUME ListInv, NEW i, NEW j, NEW a \in Address, NEW b \in Address,
         MergeChecked(i, a, j, b)
  PROVE  ListInv' /\ Records!Absorb(a, b)
<1> DEFINE sum == data[i].value + data[j].value
           between == set(data, i, item(a, sum))
           old == records_in(data, count)
<1>1. /\ i \in 0 .. count - 1 /\ data[i].address = a
      /\ j \in 0 .. count - 1 /\ data[j].address = b
      /\ a # b /\ sum \in Value
      /\ data' = remove(between, j, count) /\ count' = count - 1
      /\ call' = <<"merge", a, b>>
  BY DEF MergeChecked, get_checked, Indices, merged
<1>2. /\ count \in Nat /\ Unique(data, count)
      /\ old[a] = data[i].value /\ old[b] = data[j].value
      /\ a \in DOMAIN old /\ b \in DOMAIN old
  <2>1. count \in Nat /\ Unique(data, count)
    BY DEF ListInv, IsList
  <2> QED BY <1>1, <2>1, RecordOfItem, Listed
<1> HIDE DEF sum
<1>3. /\ IsList(between, capacity(data), count)
      /\ between[j].address = b
      /\ records_in(between, count) = [old EXCEPT ![a] = sum]
  BY <1>1, SetKeeps DEF ListInv
<1> HIDE DEF between
<1>4. /\ IsList(data', capacity(data), count')
      /\ records_in(data', count') =
           [c \in DOMAIN records_in(between, count) \ {b} |->
              records_in(between, count)[c]]
  <2>1. /\ IsList(remove(between, j, count), capacity(data), count - 1)
        /\ records_in(remove(between, j, count), count - 1) =
             [c \in DOMAIN records_in(between, count)
                     \ {between[j].address} |-> records_in(between, count)[c]]
    BY <1>1, <1>3, RemoveKeeps
  <2> QED BY <1>1, <1>3, <2>1
<1>5. sum = old[a] + old[b]
  BY <1>2 DEF sum
<1> HIDE DEF old
<1>6. records_in(data', count') =
        [c \in DOMAIN old \ {b} |-> IF c = a THEN old[a] + old[b] ELSE old[c]]
  BY <1>2, <1>3, <1>4, <1>5
<1>7. ListInv'
  BY <1>4, RoomForData DEF ListInv
<1> QED BY <1>1, <1>2, <1>6, <1>7 DEF Records!Absorb, old

LEMMA ReallocStutters ==
  ASSUME ListInv, NEW size \in Capacities, Realloc(size)
  PROVE  ListInv' /\ UNCHANGED Records!recordSetVars
<1>1. size \in Nat /\ count <= size /\ count' = count
  BY SwapListAssumption DEF Realloc
<1>2. /\ IsList(data', size, count')
      /\ records_in(data', count') = records_in(data, count)
  BY <1>1, ReallocKeeps DEF ListInv, Realloc
<1>3. ListInv'
  BY <1>2, RoomForData DEF ListInv
<1> QED BY <1>2, <1>3 DEF Records!recordSetVars, Realloc

LEMMA StepKeeps ==
  ASSUME ListInv, [SwapListNext]_vars
  PROVE  ListInv' /\ RecordStep
<1>1. CASE \E a \in Address, value \in Value : Add(a, value)
  BY <1>1, AddInserts DEF RecordStep, Records!RecordSetNext
<1>2. CASE \E i \in AnyIndex, a \in Address, value \in Value :
             SetChecked(i, a, value)
  BY <1>2, SetUpdates DEF RecordStep, Records!RecordSetNext
<1>3. CASE \E i \in AnyIndex, a \in Address : RemoveChecked(i, a)
  BY <1>3, RemoveDeletes DEF RecordStep, Records!RecordSetNext
<1>4. CASE \E i, j \in AnyIndex, a, b \in Address : MergeChecked(i, a, j, b)
  BY <1>4, MergeAbsorbs DEF RecordStep, Records!RecordSetNext
<1>5. CASE \E size \in Capacities : Realloc(size)
  BY <1>5, ReallocStutters DEF RecordStep
<1>6. CASE UNCHANGED vars
  BY <1>6 DEF vars, ListInv, RecordStep, Records!recordSetVars
<1> QED BY <1>1, <1>2, <1>3, <1>4, <1>5, <1>6 DEF SwapListNext

\* In every reachable list no two items have the same address.
THEOREM AddressesStayUnique == SwapListSpec => []AddressesAreUnique
<1>1. SwapListInit => ListInv
  BY InitIsEmpty
<1>2. ListInv /\ [SwapListNext]_vars => ListInv'
  BY StepKeeps
<1>3. ListInv => AddressesAreUnique
  BY DEF ListInv, IsList, Unique, AddressesAreUnique, Indices
<1> QED BY <1>1, <1>2, <1>3, PTL DEF SwapListSpec

\* However the account grows and shrinks, it holds the items that are counted.
THEOREM CountAlwaysFits == SwapListSpec => []CountFits
<1>1. SwapListInit => ListInv
  BY InitIsEmpty
<1>2. ListInv /\ [SwapListNext]_vars => ListInv'
  BY StepKeeps
<1>3. ListInv => CountFits
  BY DEF ListInv, IsList, CountFits
<1> QED BY <1>1, <1>2, <1>3, PTL DEF SwapListSpec

\* The list with its indices, its removals by the last item and its merges
\* implements the set of records that the instructions take it for.
THEOREM ListIsASetOfRecords == SwapListSpec => ImplementsRecordSet
<1>1. SwapListInit => ListInv /\ Records!RecordSetInit
  BY InitIsEmpty
<1>2. ListInv /\ [SwapListNext]_vars => ListInv'
  BY StepKeeps
<1>3. ListInv /\ [SwapListNext]_vars
        => [Records!RecordSetNext]_Records!recordSetVars
  BY StepKeeps DEF RecordStep
<1> QED BY <1>1, <1>2, <1>3, PTL
        DEF SwapListSpec, ImplementsRecordSet, Records!RecordSetSpec
===========================================================================

-------------------------- MODULE StorageTheorems --------------------------
(***************************************************************************)
(* Proofs about StorageProofs, for any height of the tries, any sets of    *)
(* classes, contracts and keys, any MaxKeys and any number of requests.    *)
(*                                                                         *)
(* flatten_query turns a query into a sequence of items, split_query cuts  *)
(* that sequence, and collect_query makes a query of each piece.  The      *)
(* argument is about the items: collect_query is the inverse of            *)
(* flatten_query on items in order, so the items of the requests are       *)
(* pieces between cuts (RequestsCut); what a query asks for can be read    *)
(* off its items (AsksFor), so the requests ask, between them, for what    *)
(* the query asks for; and the addresses of the requests are pieces of the *)
(* addresses of the query (AddressesMakeUp), so leaves that are as many as *)
(* the addresses are in their order (MergedLeaves).                        *)
(***************************************************************************)
EXTENDS StorageProofs, Iteration, FiniteSetTheorems, TLAPS

-----------------------------------------------------------------------------
(* Queries and their items *)

\* One entry of contract_storage_keys.
ContractKeys == [contract_address : Contracts, storage_keys : Seq(Keys)]

\* What a query and its chunks are.
Query == [class_hashes : Seq(Classes), contract_addresses : Seq(Contracts),
          contract_storage_keys : Seq(ContractKeys)]

\* What flatten_query makes of it.
Item ==
    {QueryItem("class", h, None) : h \in Classes}
    \cup {QueryItem("contract", a, None) : a \in Contracts}
    \cup {QueryItem("key", a, k) : a \in Contracts, k \in Keys}

\* The items of the storage keys, contract by contract.
KeyRuns(csks) == [i \in DOMAIN csks |-> KeyItems(csks[i])]

\* One after the other.
KeyPart(csks) == FlattenSeq(KeyRuns(csks))

\* The three kinds of items.
LEMMA ItemIsItem ==
    /\ \A h \in Classes : QueryItem("class", h, None) \in Item
    /\ \A a \in Contracts : QueryItem("contract", a, None) \in Item
    /\ \A a \in Contracts, k \in Keys : QueryItem("key", a, k) \in Item
BY DEF Item

\* The fields of an item.
LEMMA ItemFields ==
    \A kind, of, key : /\ QueryItem(kind, of, key).kind = kind
                       /\ QueryItem(kind, of, key).of = of
                       /\ QueryItem(kind, of, key).key = key
BY DEF QueryItem

\* The items of the class hashes.
LEMMA ClassPart ==
    ASSUME NEW hs \in Seq(Classes)
    PROVE  /\ ClassItems(hs) \in Seq(Item) /\ Len(ClassItems(hs)) = Len(hs)
           /\ \A i \in 1..Len(hs) : ClassItems(hs)[i] = QueryItem("class", hs[i], None)
<1>1. /\ Len(hs) \in Nat /\ DOMAIN hs = 1..Len(hs)
      /\ \A i \in 1..Len(hs) : QueryItem("class", hs[i], None) \in Item
  BY ItemIsItem
<1> QED
  BY <1>1 DEF ClassItems

\* The items of the contract addresses.
LEMMA ContractPart ==
    ASSUME NEW addrs \in Seq(Contracts)
    PROVE  /\ ContractItems(addrs) \in Seq(Item) /\ Len(ContractItems(addrs)) = Len(addrs)
           /\ \A i \in 1..Len(addrs) : ContractItems(addrs)[i] = QueryItem("contract", addrs[i], None)
<1>1. /\ Len(addrs) \in Nat /\ DOMAIN addrs = 1..Len(addrs)
      /\ \A i \in 1..Len(addrs) : QueryItem("contract", addrs[i], None) \in Item
  BY ItemIsItem
<1> QED
  BY <1>1 DEF ContractItems

\* The items of one contract's keys.
LEMMA KeyItemsAre ==
    ASSUME NEW csk \in ContractKeys
    PROVE  LET ks == csk.storage_keys
           IN  /\ KeyItems(csk) \in Seq(Item) /\ Len(KeyItems(csk)) = Len(ks)
               /\ \A i \in 1..Len(ks) :
                      KeyItems(csk)[i] = QueryItem("key", csk.contract_address, ks[i])
<1> DEFINE ks == csk.storage_keys
<1>1. ks \in Seq(Keys) /\ csk.contract_address \in Contracts
  BY DEF ContractKeys
<1> QED
  BY <1>1, ItemIsItem DEF KeyItems

\* The items of the keys, contract by contract.
LEMMA KeyRunsAre ==
    ASSUME NEW csks \in Seq(ContractKeys)
    PROVE  /\ KeyRuns(csks) \in Seq(Seq(Item)) /\ Len(KeyRuns(csks)) = Len(csks)
           /\ \A i \in 1..Len(csks) : KeyRuns(csks)[i] = KeyItems(csks[i])
<1>1. Len(csks) \in Nat /\ DOMAIN csks = 1..Len(csks) /\ \A i \in 1..Len(csks) : csks[i] \in ContractKeys
  OBVIOUS
<1>2. \A i \in 1..Len(csks) : KeyItems(csks[i]) \in Seq(Item)
  BY <1>1, KeyItemsAre
<1> QED
  BY <1>1, <1>2 DEF KeyRuns

\* The parts of a query and of its items.
LEMMA FlatQuery ==
    ASSUME NEW q \in Query
    PROVE  /\ q.class_hashes \in Seq(Classes) /\ q.contract_addresses \in Seq(Contracts)
           /\ q.contract_storage_keys \in Seq(ContractKeys)
           /\ KeyPart(q.contract_storage_keys) \in Seq(Item)
           /\ flatten_query(q) = (ClassItems(q.class_hashes) \o ContractItems(q.contract_addresses))
                                 \o KeyPart(q.contract_storage_keys)
           /\ flatten_query(q) \in Seq(Item)
<1>1. /\ q.class_hashes \in Seq(Classes) /\ q.contract_addresses \in Seq(Contracts)
      /\ q.contract_storage_keys \in Seq(ContractKeys)
  BY DEF Query
<1>2. KeyPart(q.contract_storage_keys) \in Seq(Item)
  BY <1>1, KeyRunsAre, FlattenPrefixes DEF KeyPart
<1>3. flatten_query(q) = (ClassItems(q.class_hashes) \o ContractItems(q.contract_addresses))
                         \o KeyPart(q.contract_storage_keys)
  BY DEF flatten_query, KeyPart, KeyRuns
<1> QED
  BY <1>1, <1>2, <1>3, ClassPart, ContractPart

\* The number of keys is the number of their items.
LEMMA KeysCounted ==
    ASSUME NEW csks \in Seq(ContractKeys)
    PROVE  KeyCount(csks) = Len(KeyPart(csks)) /\ KeyPart(csks) \in Seq(Item)
<1> DEFINE n == Len(csks)
           rr == KeyRuns(csks)
<1>1. /\ n \in Nat /\ rr \in Seq(Seq(Item)) /\ Len(rr) = n
      /\ \A i \in 1..n : rr[i] \in Seq(Item) /\ Len(rr[i]) = Len(csks[i].storage_keys)
  <2>1. \A i \in 1..n : csks[i] \in ContractKeys /\ rr[i] = KeyItems(csks[i])
    BY KeyRunsAre
  <2> QED
    BY <2>1, KeyRunsAre, KeyItemsAre
<1> HIDE DEF n, rr
<1>2. PICK f \in Partials(Item, rr) : FlattenSeq(rr) = f[n] /\ FlattenSeq(rr) \in Seq(Item)
  BY <1>1, FlattenPrefixes
<1>3. /\ f \in [0..n -> Seq(Item)] /\ f[0] = <<>>
      /\ \A i \in 1..n : f[i] = f[i - 1] \o rr[i]
  BY <1>1 DEF Partials
<1> DEFINE Eq(g) == g = [i \in 0..n |-> IF i = 0 THEN 0 ELSE g[i - 1] + Len(csks[i].storage_keys)]
           c == [i \in 0..n |-> Len(f[i])]
           h == CHOOSE g : Eq(g)
<1>4. ASSUME NEW i \in 1..n
      PROVE  c[i] = c[i - 1] + Len(csks[i].storage_keys)
  <2>1. i \in 0..n /\ i - 1 \in 0..n
    BY <1>1
  <2>2. Len(f[i - 1] \o rr[i]) = Len(f[i - 1]) + Len(rr[i])
    BY <2>1, <1>1, <1>3
  <2> QED
    BY <2>1, <2>2, <1>1, <1>3
<1>5. c[0] = 0
  BY <1>1, <1>3
<1>6. Eq(c)
  <2>1. ASSUME NEW i \in 0..n PROVE c[i] = IF i = 0 THEN 0 ELSE c[i - 1] + Len(csks[i].storage_keys)
    <3>1. CASE i = 0
      BY <3>1, <1>5
    <3>2. CASE i # 0
      <4>1. i \in 1..n
        BY <1>1, <3>2
      <4> QED
        BY <3>2, <4>1, <1>4
    <3> QED
      BY <3>1, <3>2
  <2> QED
    BY <2>1
<1>7. Eq(h)
  <2> HIDE DEF Eq
  <2> QED
    BY <1>6
<1>8. KeyCount(csks) = h[n]
  BY DEF KeyCount, n
<1> HIDE DEF h, c
<1>9. \A i \in 0..n : h[i] = IF i = 0 THEN 0 ELSE h[i - 1] + Len(csks[i].storage_keys)
  BY <1>7
<1> DEFINE T == {i \in 0..n : h[i] = c[i]}
<1>10. 0 \in T
  BY <1>1, <1>5, <1>9
<1>11. ASSUME NEW i \in 1..n, i - 1 \in T PROVE i \in T
  <2>1. i \in 0..n /\ i # 0 /\ h[i - 1] = c[i - 1]
    BY <1>1, <1>11
  <2>2. h[i] = h[i - 1] + Len(csks[i].storage_keys)
    BY <2>1, <1>9
  <2> QED
    BY <2>1, <2>2, <1>4
<1>12. 0..n \subseteq T
  <2> HIDE DEF T
  <2> QED
    BY <1>1, <1>10, <1>11, Induct
<1>13. h[n] = Len(f[n])
  BY <1>1, <1>12 DEF c
<1> QED
  BY <1>2, <1>8, <1>13 DEF KeyPart, rr

\* Which key items a query has.
LEMMA KeyPartHas ==
    ASSUME NEW csks \in Seq(ContractKeys), NEW x
    PROVE  Contains(KeyPart(csks), x) <=>
               \E i \in 1..Len(csks) : \E j \in 1..Len(csks[i].storage_keys) :
                   x = QueryItem("key", csks[i].contract_address, csks[i].storage_keys[j])
<1> DEFINE rr == KeyRuns(csks)
<1>1. /\ rr \in Seq(Seq(Item)) /\ Len(rr) = Len(csks)
      /\ \A i \in 1..Len(csks) : rr[i] = KeyItems(csks[i]) /\ csks[i] \in ContractKeys
  BY KeyRunsAre
<1>2. \A i \in 1..Len(csks) :
          /\ Len(rr[i]) = Len(csks[i].storage_keys)
          /\ \A j \in 1..Len(rr[i]) :
                 rr[i][j] = QueryItem("key", csks[i].contract_address, csks[i].storage_keys[j])
  BY <1>1, KeyItemsAre
<1> HIDE DEF rr
<1>3. Contains(FlattenSeq(rr), x) <=> \E i \in 1..Len(rr) : Contains(rr[i], x)
  BY <1>1, FlattenElements
<1> DEFINE Key(i, j) == QueryItem("key", csks[i].contract_address, csks[i].storage_keys[j])
<1>4. ASSUME NEW i \in 1..Len(csks)
      PROVE  Contains(rr[i], x)
             <=> \E j \in 1..Len(csks[i].storage_keys) : x = Key(i, j)
  <2>1. Len(rr[i]) = Len(csks[i].storage_keys) /\ \A j \in 1..Len(rr[i]) : rr[i][j] = Key(i, j)
    BY <1>2
  <2> HIDE DEF Key
  <2> QED
    BY <2>1 DEF Contains
<1>5. Contains(FlattenSeq(rr), x)
      <=> \E i \in 1..Len(csks) : \E j \in 1..Len(csks[i].storage_keys) : x = Key(i, j)
  <2> HIDE DEF Key
  <2> QED
    BY <1>1, <1>3, <1>4
<1> QED
  BY <1>5 DEF KeyPart, rr

\* Which item stands where: classes, then contracts, then keys.
LEMMA ItemAt ==
    ASSUME NEW q \in Query
    PROVE  LET nc == Len(q.class_hashes)
               na == Len(q.contract_addresses)
               nk == Len(KeyPart(q.contract_storage_keys))
               items == flatten_query(q)
           IN  /\ nc \in Nat /\ na \in Nat /\ nk \in Nat /\ Len(items) = nc + na + nk
               /\ \A p \in 1..nc : items[p] = QueryItem("class", q.class_hashes[p], None)
               /\ \A p \in (nc + 1)..(nc + na) :
                      items[p] = QueryItem("contract", q.contract_addresses[p - nc], None)
               /\ \A p \in (nc + na + 1)..(nc + na + nk) :
                      /\ items[p] = KeyPart(q.contract_storage_keys)[p - nc - na]
                      /\ items[p].kind = "key"
<1> DEFINE cs == q.class_hashes
           addrs == q.contract_addresses
           kp == KeyPart(q.contract_storage_keys)
           s1 == ClassItems(cs)
           s2 == ContractItems(addrs)
           nc == Len(cs)
           na == Len(addrs)
           nk == Len(kp)
<1>1. /\ s1 \in Seq(Item) /\ s2 \in Seq(Item) /\ kp \in Seq(Item)
      /\ Len(s1) = nc /\ Len(s2) = na /\ nc \in Nat /\ na \in Nat /\ nk \in Nat
      /\ \A i \in 1..nc : s1[i] = QueryItem("class", cs[i], None)
      /\ \A i \in 1..na : s2[i] = QueryItem("contract", addrs[i], None)
      /\ flatten_query(q) = (s1 \o s2) \o kp
  BY FlatQuery, ClassPart, ContractPart
<1>2. \A j \in 1..nk : kp[j].kind = "key"
  <2> SUFFICES ASSUME NEW j \in 1..nk PROVE kp[j].kind = "key"
    OBVIOUS
  <2>1. Contains(kp, kp[j]) /\ q.contract_storage_keys \in Seq(ContractKeys)
    BY FlatQuery DEF Contains
  <2> QED
    BY <2>1, KeyPartHas, ItemFields
<1> HIDE DEF s1, s2, kp, nc, na, nk, cs, addrs
<1>3. /\ s1 \o s2 \in Seq(Item) /\ Len(s1 \o s2) = nc + na
      /\ \A p \in 1..(nc + na) : (s1 \o s2)[p] = IF p <= nc THEN s1[p] ELSE s2[p - nc]
  BY <1>1, ConcatProperties
<1>4. /\ Len((s1 \o s2) \o kp) = nc + na + nk
      /\ \A p \in 1..(nc + na + nk) :
             ((s1 \o s2) \o kp)[p] = IF p <= nc + na THEN (s1 \o s2)[p] ELSE kp[p - (nc + na)]
  BY <1>1, <1>3, ConcatProperties DEF nk
<1>5. \A p \in 1..nc : flatten_query(q)[p] = QueryItem("class", cs[p], None)
  BY <1>1, <1>3, <1>4
<1>6. ASSUME NEW p \in (nc + 1)..(nc + na)
      PROVE  flatten_query(q)[p] = QueryItem("contract", addrs[p - nc], None)
  <2>1. p - nc \in 1..na /\ flatten_query(q)[p] = s2[p - nc]
    BY <1>1, <1>3, <1>4
  <2> QED
    BY <2>1, <1>1
<1>7. ASSUME NEW p \in (nc + na + 1)..(nc + na + nk)
      PROVE  flatten_query(q)[p] = kp[p - nc - na] /\ flatten_query(q)[p].kind = "key"
  <2>1. p - nc - na \in 1..nk /\ p - nc - na = p - (nc + na) /\ p \in 1..(nc + na + nk)
    BY <1>1
  <2> QED
    BY <2>1, <1>1, <1>2, <1>4
<1>8. Len(flatten_query(q)) = nc + na + nk
  BY <1>1, <1>4
<1> QED
  BY <1>1, <1>5, <1>6, <1>7, <1>8 DEF nc, na, nk, kp, cs, addrs

\* The total the code counts is the number of items.
LEMMA TotalIsSize ==
    ASSUME NEW q \in Query
    PROVE  count_total_keys(q) = Len(flatten_query(q)) /\ Len(flatten_query(q)) \in Nat
<1> DEFINE nc == Len(q.class_hashes)
           na == Len(q.contract_addresses)
           nk == Len(KeyPart(q.contract_storage_keys))
<1>1. nc \in Nat /\ na \in Nat /\ nk \in Nat /\ Len(flatten_query(q)) = nc + na + nk
  BY ItemAt
<1>2. KeyCount(q.contract_storage_keys) = nk
  BY FlatQuery, KeysCounted
<1>3. count_total_keys(q) = nc + na + nk
  BY <1>2 DEF count_total_keys
<1> HIDE DEF nc, na, nk
<1> QED
  BY <1>1, <1>3

\* What a query asks for, read off its items.
LEMMA AsksFor ==
    ASSUME NEW q \in Query
    PROVE  /\ \A h : Contains(q.class_hashes, h) <=> Contains(flatten_query(q), QueryItem("class", h, None))
           /\ \A a : Contains(q.contract_addresses, a) <=>
                     Contains(flatten_query(q), QueryItem("contract", a, None))
           /\ \A a, k : Contains(flatten_query(q), QueryItem("key", a, k)) <=>
                  \E i \in 1..Len(q.contract_storage_keys) :
                      /\ q.contract_storage_keys[i].contract_address = a
                      /\ Contains(q.contract_storage_keys[i].storage_keys, k)
<1> DEFINE items == flatten_query(q)
           cs == q.class_hashes
           addrs == q.contract_addresses
           csks == q.contract_storage_keys
           kp == KeyPart(csks)
           nc == Len(cs)
           na == Len(addrs)
           nk == Len(kp)
<1>1. /\ nc \in Nat /\ na \in Nat /\ nk \in Nat /\ Len(items) = nc + na + nk
      /\ \A p \in 1..nc : items[p] = QueryItem("class", cs[p], None)
      /\ \A p \in (nc + 1)..(nc + na) : items[p] = QueryItem("contract", addrs[p - nc], None)
      /\ \A p \in (nc + na + 1)..(nc + na + nk) :
             items[p] = kp[p - nc - na] /\ items[p].kind = "key"
  BY ItemAt
<1>2. \A x : Contains(kp, x) <=>
          \E i \in 1..Len(csks) : \E j \in 1..Len(csks[i].storage_keys) :
              x = QueryItem("key", csks[i].contract_address, csks[i].storage_keys[j])
  BY FlatQuery, KeyPartHas
<1> HIDE DEF items, cs, addrs, csks, kp
<1>3. ASSUME NEW h PROVE Contains(cs, h) <=> Contains(items, QueryItem("class", h, None))
  <2>1. ASSUME Contains(cs, h) PROVE Contains(items, QueryItem("class", h, None))
    BY <2>1, <1>1 DEF Contains
  <2>2. ASSUME Contains(items, QueryItem("class", h, None)) PROVE Contains(cs, h)
    <3>1. PICK p \in 1..Len(items) : items[p] = QueryItem("class", h, None)
      BY <2>2 DEF Contains
    <3>2. items[p].kind = "class" /\ items[p].of = h
      BY <3>1, ItemFields
    <3>3. p \in 1..nc
      BY <3>2, <1>1, ItemFields
    <3> QED
      BY <3>2, <3>3, <1>1, ItemFields DEF Contains
  <2> QED
    BY <2>1, <2>2
<1>4. ASSUME NEW a PROVE Contains(addrs, a) <=> Contains(items, QueryItem("contract", a, None))
  <2>1. ASSUME Contains(addrs, a) PROVE Contains(items, QueryItem("contract", a, None))
    <3>1. PICK j \in 1..na : addrs[j] = a
      BY <2>1 DEF Contains
    <3>2. nc + j \in (nc + 1)..(nc + na) /\ (nc + j) - nc = j
      BY <1>1
    <3>3. nc + j \in 1..Len(items) /\ items[nc + j] = QueryItem("contract", a, None)
      BY <3>1, <3>2, <1>1
    <3> QED
      BY <3>3 DEF Contains
  <2>2. ASSUME Contains(items, QueryItem("contract", a, None)) PROVE Contains(addrs, a)
    <3>1. PICK p \in 1..Len(items) : items[p] = QueryItem("contract", a, None)
      BY <2>2 DEF Contains
    <3>2. items[p].kind = "contract" /\ items[p].of = a
      BY <3>1, ItemFields
    <3>3. p \in (nc + 1)..(nc + na)
      BY <3>2, <1>1, ItemFields
    <3>4. p - nc \in 1..na /\ addrs[p - nc] = a
      BY <3>2, <3>3, <1>1, ItemFields
    <3> QED
      BY <3>4 DEF Contains
  <2> QED
    BY <2>1, <2>2
<1>5. ASSUME NEW a, NEW k
      PROVE  Contains(items, QueryItem("key", a, k)) <=> Contains(kp, QueryItem("key", a, k))
  <2>1. ASSUME Contains(kp, QueryItem("key", a, k)) PROVE Contains(items, QueryItem("key", a, k))
    <3>1. PICK j \in 1..nk : kp[j] = QueryItem("key", a, k)
      BY <2>1 DEF Contains
    <3>2. /\ nc + na + j \in (nc + na + 1)..(nc + na + nk) /\ (nc + na + j) - nc - na = j
          /\ nc + na + j \in 1..Len(items)
      BY <1>1
    <3> QED
      BY <3>1, <3>2, <1>1 DEF Contains
  <2>2. ASSUME Contains(items, QueryItem("key", a, k)) PROVE Contains(kp, QueryItem("key", a, k))
    <3>1. PICK p \in 1..Len(items) : items[p] = QueryItem("key", a, k)
      BY <2>2 DEF Contains
    <3>2. items[p].kind = "key"
      BY <3>1, ItemFields
    <3>3. p \in (nc + na + 1)..(nc + na + nk)
      <4>1. p \notin 1..nc
        BY <3>2, <1>1, ItemFields
      <4>2. p \notin (nc + 1)..(nc + na)
        BY <3>2, <1>1, ItemFields
      <4> QED
        BY <4>1, <4>2, <1>1
    <3>4. p - nc - na \in 1..nk /\ kp[p - nc - na] = QueryItem("key", a, k)
      BY <3>1, <3>3, <1>1
    <3> QED
      BY <3>4 DEF Contains
  <2> QED
    BY <2>1, <2>2
<1>6. ASSUME NEW a, NEW k
      PROVE  Contains(kp, QueryItem("key", a, k)) <=>
                 \E i \in 1..Len(csks) :
                     csks[i].contract_address = a /\ Contains(csks[i].storage_keys, k)
  <2>1. \A b, l : QueryItem("key", a, k) = QueryItem("key", b, l) <=> a = b /\ k = l
    BY DEF QueryItem
  <2>2. ASSUME Contains(kp, QueryItem("key", a, k))
        PROVE  \E i \in 1..Len(csks) :
                   csks[i].contract_address = a /\ Contains(csks[i].storage_keys, k)
    <3>0. PICK i \in 1..Len(csks) : \E j \in 1..Len(csks[i].storage_keys) :
               QueryItem("key", a, k) =
                   QueryItem("key", csks[i].contract_address, csks[i].storage_keys[j])
      BY <1>2, <2>2
    <3>1. PICK j \in 1..Len(csks[i].storage_keys) :
               QueryItem("key", a, k) =
                   QueryItem("key", csks[i].contract_address, csks[i].storage_keys[j])
      BY <3>0
    <3>2. a = csks[i].contract_address /\ k = csks[i].storage_keys[j]
      BY <2>1, <3>1
    <3> QED
      BY <3>2 DEF Contains
  <2>3. ASSUME NEW i \in 1..Len(csks), csks[i].contract_address = a,
               Contains(csks[i].storage_keys, k)
        PROVE  Contains(kp, QueryItem("key", a, k))
    <3>1. PICK j \in 1..Len(csks[i].storage_keys) : csks[i].storage_keys[j] = k
      BY <2>3 DEF Contains
    <3>2. QueryItem("key", a, k) =
              QueryItem("key", csks[i].contract_address, csks[i].storage_keys[j])
      BY <2>3, <3>1
    <3> QED
      BY <1>2, <3>2
  <2> QED
    BY <2>2, <2>3
<1> QED
  BY <1>3, <1>4, <1>5, <1>6 DEF items, cs, addrs, csks

-----------------------------------------------------------------------------
(* collect_query is the inverse of flatten_query *)

\* One more contract with keys.
LEMMA KeyPartAppend ==
    ASSUME NEW csks \in Seq(ContractKeys), NEW csk \in ContractKeys
    PROVE  KeyPart(Append(csks, csk)) = KeyPart(csks) \o KeyItems(csk)
<1>1. Append(csks, csk) \in Seq(ContractKeys) /\ Len(Append(csks, csk)) = Len(csks) + 1
      /\ Len(csks) \in Nat
  OBVIOUS
<1>2. KeyItems(csk) \in Seq(Item) /\ KeyRuns(csks) \in Seq(Seq(Item))
  BY KeyItemsAre, KeyRunsAre
<1>3. KeyRuns(Append(csks, csk)) = Append(KeyRuns(csks), KeyItems(csk))
  <2> DEFINE e == Append(csks, csk)
             r == KeyRuns(csks)
             s == KeyRuns(e)
             t == Append(r, KeyItems(csk))
  <2>0. e \in Seq(ContractKeys) /\ Len(e) = Len(csks) + 1 /\ Len(r) = Len(csks)
        /\ r \in Seq(Seq(Item))
    BY <1>1, KeyRunsAre
  <2>1. s \in Seq(Seq(Item)) /\ Len(s) = Len(csks) + 1
    <3> HIDE DEF e
    <3> QED
      BY <2>0, KeyRunsAre DEF s
  <2>2. t \in Seq(Seq(Item)) /\ Len(t) = Len(csks) + 1
    <3> HIDE DEF r
    <3> QED
      BY <2>0, <1>2, AppendProperties DEF t
  <2>3. ASSUME NEW i \in 1..(Len(csks) + 1) PROVE s[i] = t[i]
    <3>1. s[i] = KeyItems(Append(csks, csk)[i])
      BY <1>1, KeyRunsAre
    <3>2. CASE i = Len(csks) + 1
      <4>1. Append(csks, csk)[i] = csk
        BY <3>2
      <4>2. t[i] = KeyItems(csk)
        BY <1>2, <3>2, KeyRunsAre, AppendProperties
      <4> QED
        BY <3>1, <4>1, <4>2
    <3>3. CASE i # Len(csks) + 1
      <4>1. i \in 1..Len(csks) /\ Append(csks, csk)[i] = csks[i]
        BY <1>1, <3>3
      <4>2. t[i] = KeyRuns(csks)[i]
        BY <4>1, <1>2, KeyRunsAre, AppendProperties
      <4>3. KeyRuns(csks)[i] = KeyItems(csks[i])
        BY <4>1, KeyRunsAre
      <4> QED
        BY <3>1, <4>1, <4>2, <4>3
    <3> QED
      BY <3>2, <3>3
  <2> HIDE DEF s, t
  <2>4. s = t
    BY <2>1, <2>2, <2>3, SeqEqual
  <2> QED
    BY <2>4 DEF s, t
<1> QED
  BY <1>2, <1>3, FlattenAppend DEF KeyPart

\* One more key of a contract.
LEMMA KeyItemsAppend ==
    ASSUME NEW a \in Contracts, NEW ks \in Seq(Keys), NEW k \in Keys
    PROVE  KeyItems([contract_address |-> a, storage_keys |-> Append(ks, k)]) =
               Append(KeyItems([contract_address |-> a, storage_keys |-> ks]), QueryItem("key", a, k))
<1> DEFINE c1 == [contract_address |-> a, storage_keys |-> ks]
           c2 == [contract_address |-> a, storage_keys |-> Append(ks, k)]
           x == QueryItem("key", a, k)
<1>1. /\ c1 \in ContractKeys /\ c1.storage_keys = ks /\ c1.contract_address = a
      /\ c2 \in ContractKeys /\ c2.storage_keys = Append(ks, k) /\ c2.contract_address = a
  BY DEF ContractKeys
<1>2. /\ Len(ks) \in Nat /\ Len(Append(ks, k)) = Len(ks) + 1 /\ Append(ks, k)[Len(ks) + 1] = k
      /\ \A i \in 1..Len(ks) : Append(ks, k)[i] = ks[i]
  OBVIOUS
<1> HIDE DEF c1, c2
<1> DEFINE s == KeyItems(c2)
           t == Append(KeyItems(c1), x)
<1>3. /\ KeyItems(c1) \in Seq(Item) /\ Len(KeyItems(c1)) = Len(ks)
      /\ \A i \in 1..Len(ks) : KeyItems(c1)[i] = QueryItem("key", a, ks[i])
  BY <1>1, KeyItemsAre
<1>4. /\ s \in Seq(Item) /\ Len(s) = Len(ks) + 1
      /\ \A i \in 1..(Len(ks) + 1) : s[i] = QueryItem("key", a, Append(ks, k)[i])
  BY <1>1, <1>2, KeyItemsAre
<1>5. x \in Item
  BY ItemIsItem
<1>6. /\ t \in Seq(Item) /\ Len(t) = Len(ks) + 1 /\ t[Len(ks) + 1] = x
      /\ \A i \in 1..Len(ks) : t[i] = KeyItems(c1)[i]
  BY <1>3, <1>5, AppendProperties
<1>7. ASSUME NEW i \in 1..(Len(ks) + 1) PROVE s[i] = t[i]
  <2>1. CASE i = Len(ks) + 1
    BY <2>1, <1>2, <1>4, <1>6
  <2>2. CASE i # Len(ks) + 1
    <3>1. i \in 1..Len(ks)
      BY <2>2, <1>2
    <3> QED
      BY <3>1, <1>2, <1>3, <1>4, <1>6
  <2> QED
    BY <2>1, <2>2
<1> HIDE DEF s, t
<1>8. s = t
  BY <1>4, <1>6, <1>7, SeqEqual
<1> QED
  BY <1>8 DEF s, t, c1, c2

\* One more class hash or contract address.
LEMMA PartsAppend ==
    /\ \A hs \in Seq(Classes), h \in Classes :
           ClassItems(Append(hs, h)) = Append(ClassItems(hs), QueryItem("class", h, None))
    /\ \A addrs \in Seq(Contracts), a \in Contracts :
           ContractItems(Append(addrs, a)) = Append(ContractItems(addrs), QueryItem("contract", a, None))
<1>1. ASSUME NEW hs \in Seq(Classes), NEW h \in Classes
      PROVE  ClassItems(Append(hs, h)) = Append(ClassItems(hs), QueryItem("class", h, None))
  <2> DEFINE x == QueryItem("class", h, None)
             s == ClassItems(Append(hs, h))
             t == Append(ClassItems(hs), x)
  <2>1. /\ Append(hs, h) \in Seq(Classes) /\ Len(hs) \in Nat /\ Len(Append(hs, h)) = Len(hs) + 1
        /\ Append(hs, h)[Len(hs) + 1] = h /\ \A i \in 1..Len(hs) : Append(hs, h)[i] = hs[i]
    OBVIOUS
  <2>2. /\ s \in Seq(Item) /\ Len(s) = Len(hs) + 1
        /\ \A i \in 1..(Len(hs) + 1) : s[i] = QueryItem("class", Append(hs, h)[i], None)
    BY <2>1, ClassPart
  <2>3. x \in Item
    BY ItemIsItem
  <2>4. /\ t \in Seq(Item) /\ Len(t) = Len(hs) + 1 /\ t[Len(hs) + 1] = x
        /\ \A i \in 1..Len(hs) : t[i] = QueryItem("class", hs[i], None)
    BY <2>3, ClassPart, AppendProperties
  <2>5. ASSUME NEW i \in 1..(Len(hs) + 1) PROVE s[i] = t[i]
    <3>1. i = Len(hs) + 1 \/ i \in 1..Len(hs)
      BY <2>1
    <3> HIDE DEF s, t
    <3> QED
      BY <3>1, <2>1, <2>2, <2>4
  <2> HIDE DEF s, t
  <2>6. s = t
    BY <2>2, <2>4, <2>5, SeqEqual
  <2> QED
    BY <2>6 DEF s, t
<1>2. ASSUME NEW addrs \in Seq(Contracts), NEW a \in Contracts
      PROVE  ContractItems(Append(addrs, a)) = Append(ContractItems(addrs), QueryItem("contract", a, None))
  <2> DEFINE x == QueryItem("contract", a, None)
             s == ContractItems(Append(addrs, a))
             t == Append(ContractItems(addrs), x)
             n == Len(addrs)
  <2>1. /\ Append(addrs, a) \in Seq(Contracts) /\ n \in Nat /\ Len(Append(addrs, a)) = n + 1
        /\ Append(addrs, a)[n + 1] = a /\ \A i \in 1..n : Append(addrs, a)[i] = addrs[i]
    OBVIOUS
  <2>2. /\ s \in Seq(Item) /\ Len(s) = n + 1
        /\ \A i \in 1..(n + 1) : s[i] = QueryItem("contract", Append(addrs, a)[i], None)
    BY <2>1, ContractPart
  <2>3. x \in Item
    BY ItemIsItem
  <2>4. /\ t \in Seq(Item) /\ Len(t) = n + 1 /\ t[n + 1] = x
        /\ \A i \in 1..n : t[i] = QueryItem("contract", addrs[i], None)
    BY <2>3, ContractPart, AppendProperties
  <2>5. ASSUME NEW i \in 1..(n + 1) PROVE s[i] = t[i]
    <3>1. i = n + 1 \/ i \in 1..n
      BY <2>1
    <3> HIDE DEF s, t
    <3> QED
      BY <3>1, <2>1, <2>2, <2>4
  <2> HIDE DEF s, t
  <2>6. s = t
    BY <2>2, <2>4, <2>5, SeqEqual
  <2> QED
    BY <2>6 DEF s, t
<1> QED
  BY <1>1, <1>2

\* An item is of one of the three kinds.
LEMMA ItemCases ==
    ASSUME NEW item \in Item
    PROVE  \/ item.kind = "class" /\ item.of \in Classes /\ item = QueryItem("class", item.of, None)
           \/ item.kind = "contract" /\ item.of \in Contracts
              /\ item = QueryItem("contract", item.of, None)
           \/ item.kind = "key" /\ item.of \in Contracts /\ item.key \in Keys
              /\ item = QueryItem("key", item.of, item.key)
BY ItemFields DEF Item

\* What one turn of the loop does to the three parts of a query.
LEMMA CollectParts ==
    ASSUME NEW q \in Query, NEW item \in Item
    PROVE  LET cs == q.class_hashes
               addrs == q.contract_addresses
               csks == q.contract_storage_keys
               n == Len(csks)
           IN  /\ item.kind = "class" => Collect(q, item) =
                      [class_hashes |-> Append(cs, item.of), contract_addresses |-> addrs,
                       contract_storage_keys |-> csks]
               /\ item.kind = "contract" => Collect(q, item) =
                      [class_hashes |-> cs, contract_addresses |-> Append(addrs, item.of),
                       contract_storage_keys |-> csks]
               /\ item.kind = "key" /\ csks # <<>> /\ csks[n].contract_address = item.of =>
                      Collect(q, item) =
                      [class_hashes |-> cs, contract_addresses |-> addrs,
                       contract_storage_keys |->
                           [csks EXCEPT ![n] = [contract_address |-> item.of,
                                                storage_keys |-> Append(csks[n].storage_keys, item.key)]]]
               /\ item.kind = "key" /\ ~(csks # <<>> /\ csks[n].contract_address = item.of) =>
                      Collect(q, item) =
                      [class_hashes |-> cs, contract_addresses |-> addrs,
                       contract_storage_keys |->
                           Append(csks, [contract_address |-> item.of, storage_keys |-> <<item.key>>])]
<1> DEFINE cs == q.class_hashes
           addrs == q.contract_addresses
           csks == q.contract_storage_keys
           n == Len(csks)
<1>1. CASE item.kind = "class"
  BY <1>1 DEF Collect, Query
<1>2. CASE item.kind = "contract"
  BY <1>2 DEF Collect, Query
<1>3. CASE item.kind = "key" /\ ~(csks # <<>> /\ csks[n].contract_address = item.of)
  BY <1>3 DEF Collect, Query, Last
<1>4. CASE item.kind = "key" /\ csks # <<>> /\ csks[n].contract_address = item.of
  <2>1. csks \in Seq(ContractKeys) /\ n \in 1..n
    BY <1>4, EmptySeq DEF Query
  <2>2. csks[n] \in ContractKeys
    BY <2>1
  <2>3. [csks[n] EXCEPT !.storage_keys = Append(@, item.key)]
        = [contract_address |-> item.of, storage_keys |-> Append(csks[n].storage_keys, item.key)]
    BY <2>2, <1>4 DEF ContractKeys
  <2>4. Collect(q, item) = [q EXCEPT !.contract_storage_keys[n].storage_keys = Append(@, item.key)]
    BY <1>4 DEF Collect, Last
  <2>5. Collect(q, item) =
            [q EXCEPT !.contract_storage_keys =
                [csks EXCEPT ![n] = [csks[n] EXCEPT !.storage_keys = Append(@, item.key)]]]
    BY <2>4
  <2>6. \A x : [q EXCEPT !.contract_storage_keys = x] =
            [class_hashes |-> cs, contract_addresses |-> addrs, contract_storage_keys |-> x]
    BY DEF Query
  <2> QED
    BY <1>4, <2>3, <2>5, <2>6
<1> QED
  BY <1>1, <1>2, <1>3, <1>4

\* One turn of the loop adds its item at the end, as long as classes come
\* before contracts and contracts before keys.
LEMMA CollectStep ==
    ASSUME NEW q \in Query, NEW item \in Item
    PROVE  /\ Collect(q, item) \in Query
           /\ Collect(q, item).contract_addresses # q.contract_addresses => item.kind = "contract"
           /\ Collect(q, item).contract_storage_keys # q.contract_storage_keys => item.kind = "key"
           /\ /\ item.kind = "class" => q.contract_addresses = <<>> /\ q.contract_storage_keys = <<>>
              /\ item.kind = "contract" => q.contract_storage_keys = <<>>
              => flatten_query(Collect(q, item)) = Append(flatten_query(q), item)
<1> DEFINE cs == q.class_hashes
           addrs == q.contract_addresses
           csks == q.contract_storage_keys
           n == Len(csks)
           kp == KeyPart(csks)
           Flat(x, y, z) == (ClassItems(x) \o ContractItems(y)) \o KeyPart(z)
           Make(x, y, z) == [class_hashes |-> x, contract_addresses |-> y, contract_storage_keys |-> z]
<1>1. /\ cs \in Seq(Classes) /\ addrs \in Seq(Contracts) /\ csks \in Seq(ContractKeys)
      /\ kp \in Seq(Item) /\ ClassItems(cs) \in Seq(Item) /\ ContractItems(addrs) \in Seq(Item)
      /\ flatten_query(q) = Flat(cs, addrs, csks)
  BY FlatQuery, ClassPart, ContractPart
<1>2. ASSUME NEW x \in Seq(Classes), NEW y \in Seq(Contracts), NEW z \in Seq(ContractKeys)
      PROVE  Make(x, y, z) \in Query /\ flatten_query(Make(x, y, z)) = Flat(x, y, z)
  <2>1. Make(x, y, z) \in Query
    BY DEF Query
  <2> QED
    BY <2>1, FlatQuery
<1>3. Make(cs, addrs, csks).contract_addresses = addrs
  OBVIOUS
<1>4. KeyPart(<<>>) = <<>>
  BY FlattenEmpty DEF KeyPart, KeyRuns
<1>5. ContractItems(<<>>) = <<>>
  BY DEF ContractItems
<1>6. \/ item.kind = "class" /\ item.of \in Classes /\ item = QueryItem("class", item.of, None)
      \/ item.kind = "contract" /\ item.of \in Contracts /\ item = QueryItem("contract", item.of, None)
      \/ item.kind = "key" /\ item.of \in Contracts /\ item.key \in Keys
         /\ item = QueryItem("key", item.of, item.key)
  BY ItemCases
<1>7. CASE item.kind = "class"
  <2>1. Append(cs, item.of) \in Seq(Classes) /\ item = QueryItem("class", item.of, None)
    BY <1>1, <1>6, <1>7
  <2>2. Collect(q, item) = Make(Append(cs, item.of), addrs, csks)
    BY <1>7, CollectParts
  <2>3. ASSUME addrs = <<>>, csks = <<>>
        PROVE  flatten_query(Collect(q, item)) = Append(flatten_query(q), item)
    <3>1. flatten_query(Collect(q, item)) = (ClassItems(Append(cs, item.of)) \o <<>>) \o <<>>
      BY <2>1, <2>2, <2>3, <1>1, <1>2, <1>4, <1>5
    <3>2. flatten_query(q) = (ClassItems(cs) \o <<>>) \o <<>>
      BY <2>3, <1>1, <1>4, <1>5
    <3>3. ClassItems(Append(cs, item.of)) = Append(ClassItems(cs), item)
      BY <1>1, <1>6, <1>7, PartsAppend
    <3>4. Append(ClassItems(cs), item) \in Seq(Item)
      BY <1>1
    <3> QED
      BY <3>1, <3>2, <3>3, <3>4, <1>1, ConcatEmptySeq
  <2>4. Collect(q, item) \in Query
    BY <2>1, <2>2, <1>1, <1>2
  <2>5. Collect(q, item).contract_addresses = addrs /\ Collect(q, item).contract_storage_keys = csks
    BY <2>2
  <2> QED
    BY <2>3, <2>4, <2>5, <1>7
<1>8. CASE item.kind = "contract"
  <2>1. Append(addrs, item.of) \in Seq(Contracts) /\ item = QueryItem("contract", item.of, None)
    BY <1>1, <1>6, <1>8
  <2>2. Collect(q, item) = Make(cs, Append(addrs, item.of), csks)
    BY <1>8, CollectParts
  <2>3. ASSUME csks = <<>>
        PROVE  flatten_query(Collect(q, item)) = Append(flatten_query(q), item)
    <3>1. flatten_query(Collect(q, item)) = (ClassItems(cs) \o ContractItems(Append(addrs, item.of))) \o <<>>
      BY <2>1, <2>2, <2>3, <1>1, <1>2, <1>4
    <3>2. flatten_query(q) = (ClassItems(cs) \o ContractItems(addrs)) \o <<>>
      BY <2>3, <1>1, <1>4
    <3>3. ContractItems(Append(addrs, item.of)) = Append(ContractItems(addrs), item)
      BY <1>1, <1>6, <1>8, PartsAppend
    <3>4. ClassItems(cs) \o ContractItems(addrs) \in Seq(Item)
      BY <1>1
    <3>5. ClassItems(cs) \o Append(ContractItems(addrs), item)
          = Append(ClassItems(cs) \o ContractItems(addrs), item)
      BY <1>1, ConcatAppend
    <3>6. Append(ClassItems(cs) \o ContractItems(addrs), item) \in Seq(Item)
      BY <3>4
    <3> QED
      BY <3>1, <3>2, <3>3, <3>4, <3>5, <3>6, ConcatEmptySeq
  <2>4. Collect(q, item) \in Query
    BY <2>1, <2>2, <1>1, <1>2
  <2>5. Collect(q, item).contract_storage_keys = csks
    BY <2>2
  <2> QED
    BY <2>3, <2>4, <2>5, <1>8
<1>9. CASE item.kind = "key"
  <2> DEFINE new == Collect(q, item).contract_storage_keys
  <2>1. item.of \in Contracts /\ item.key \in Keys /\ item = QueryItem("key", item.of, item.key)
    BY <1>6, <1>9
  <2>2. /\ Collect(q, item) = Make(cs, addrs, new)
        /\ new \in Seq(ContractKeys) /\ KeyPart(new) = Append(kp, item)
    <3>1. CASE csks # <<>> /\ csks[n].contract_address = item.of
      <4>1. PICK init \in Seq(ContractKeys), last \in ContractKeys : csks = Append(init, last)
        <5> HIDE DEF csks
        <5> QED
          BY <1>1, <3>1, SequenceEmptyOrAppend
      <4>2. /\ n = Len(init) + 1 /\ csks[n] = last /\ Len(init) \in Nat
            /\ \A i \in 1..Len(init) : csks[i] = init[i]
        BY <4>1
      <4> DEFINE ks == last.storage_keys
                 grown == [contract_address |-> item.of, storage_keys |-> Append(ks, item.key)]
      <4>3. last = [contract_address |-> item.of, storage_keys |-> ks] /\ ks \in Seq(Keys)
        BY <3>1, <4>2 DEF ContractKeys
      <4>4. grown \in ContractKeys
        BY <4>3, <2>1 DEF ContractKeys
      <4>5. KeyItems(grown) = Append(KeyItems(last), item)
        BY <4>3, <2>1, KeyItemsAppend
      <4>6. Collect(q, item) = Make(cs, addrs, [csks EXCEPT ![n] = grown])
        BY <3>1, <4>2, <1>9, CollectParts
      <4> HIDE DEF grown
      <4>7. [csks EXCEPT ![n] = grown] = Append(init, grown)
        <5> DEFINE s == [csks EXCEPT ![n] = grown]
                   t == Append(init, grown)
        <5>1. n \in 1..Len(csks)
          BY <4>2
        <5>2. /\ s \in Seq(ContractKeys) /\ Len(s) = n
              /\ \A i \in 1..n : s[i] = IF i = n THEN grown ELSE csks[i]
          BY <1>1, <4>4, <5>1, ExceptSeq
        <5>3. /\ t \in Seq(ContractKeys) /\ Len(t) = n /\ t[n] = grown
              /\ \A i \in 1..Len(init) : t[i] = init[i]
          BY <4>2, <4>4, AppendProperties
        <5>4. \A i \in 1..n : i = n \/ i \in 1..Len(init)
          BY <4>2
        <5> HIDE DEF s, t
        <5>5. \A i \in 1..n : s[i] = t[i]
          BY <5>2, <5>3, <5>4, <4>2
        <5>6. s = t
          BY <5>2, <5>3, <5>5, SeqEqual
        <5> QED
          BY <5>6 DEF s, t
      <4>8. new = Append(init, grown) /\ Append(init, grown) \in Seq(ContractKeys)
        <5>1. new = [csks EXCEPT ![n] = grown]
          BY <4>6
        <5> QED
          BY <5>1, <4>4, <4>7, AppendProperties
      <4>9. KeyPart(new) = KeyPart(init) \o KeyItems(grown)
        BY <4>4, <4>8, KeyPartAppend
      <4>10. kp = KeyPart(init) \o KeyItems(last)
        BY <4>1, KeyPartAppend
      <4>11. KeyPart(init) \in Seq(Item) /\ KeyItems(last) \in Seq(Item)
        BY KeysCounted, KeyItemsAre
      <4>12. KeyPart(init) \o Append(KeyItems(last), item) = Append(KeyPart(init) \o KeyItems(last), item)
        BY <4>11, ConcatAppend
      <4> QED
        BY <4>5, <4>6, <4>7, <4>8, <4>9, <4>10, <4>12
    <3>2. CASE ~(csks # <<>> /\ csks[n].contract_address = item.of)
      <4> DEFINE c0 == [contract_address |-> item.of, storage_keys |-> <<>>]
                 c1 == [contract_address |-> item.of, storage_keys |-> <<item.key>>]
      <4>1. c1 \in ContractKeys
        BY <2>1 DEF ContractKeys
      <4>2. Collect(q, item) = Make(cs, addrs, Append(csks, c1))
        BY <3>2, <1>9, CollectParts
      <4>3. KeyItems(c1) = <<item>>
        BY <2>1 DEF KeyItems
      <4> HIDE DEF c1
      <4>4. new = Append(csks, c1) /\ new \in Seq(ContractKeys)
        BY <4>1, <4>2, <1>1
      <4>5. KeyPart(new) = kp \o <<item>>
        BY <4>1, <4>3, <4>4, <1>1, KeyPartAppend
      <4>6. kp \o <<item>> = Append(kp, item)
        BY <1>1, AppendIsConcat
      <4> QED
        BY <4>2, <4>4, <4>5, <4>6
    <3> QED
      BY <3>1, <3>2
  <2> HIDE DEF new
  <2>3. Collect(q, item) \in Query /\ flatten_query(Collect(q, item)) = Flat(cs, addrs, new)
    BY <2>2, <1>1, <1>2
  <2>4. ClassItems(cs) \o ContractItems(addrs) \in Seq(Item)
    BY <1>1
  <2>5. Flat(cs, addrs, new) = Append(Flat(cs, addrs, csks), item)
    BY <2>2, <2>4, <1>1, ConcatAppend
  <2>6. Collect(q, item).contract_addresses = addrs
    BY <2>2
  <2> QED
    BY <2>3, <2>5, <2>6, <1>1, <1>9
<1> QED
  BY <1>6, <1>7, <1>8, <1>9

\* Classes before contracts before keys.
Ordered(items) ==
    \A i, j \in 1..Len(items) :
        i < j => /\ items[j].kind = "class" => items[i].kind = "class"
                 /\ items[j].kind = "contract" => items[i].kind # "key"

\* The loop of collect_query runs.
LEMMA CollectRuns ==
    ASSUME NEW items \in Seq(Item)
    PROVE  \E f : /\ DOMAIN f = 0..Len(items) /\ f[0] = EmptyQuery
                  /\ \A i \in 1..Len(items) : f[i] = Collect(f[i - 1], items[i])
                  /\ collect_query(items) = f[Len(items)]
<1> DEFINE n == Len(items)
           F == [x \in (1..n) \X Query |-> Collect(x[2], items[x[1]])]
           Eq(g) == g = [i \in 0..n |-> IF i = 0 THEN EmptyQuery ELSE Collect(g[i - 1], items[i])]
           h == CHOOSE g : Eq(g)
<1>1. n \in Nat /\ EmptyQuery \in Query /\ \A i \in 1..n : items[i] \in Item
  BY DEF EmptyQuery, Query
<1> HIDE DEF n
<1>2. F \in Steps(Query, n)
  <2>1. ASSUME NEW x \in (1..n) \X Query PROVE Collect(x[2], items[x[1]]) \in Query
    BY <1>1, CollectStep
  <2> QED
    BY <2>1 DEF Steps
<1>3. PICK f \in Iterations(Query, EmptyQuery, n, F) : TRUE
  <2> HIDE DEF F
  <2> QED
    BY <1>1, <1>2, Iterate
<1>4. /\ f \in [0..n -> Query] /\ f[0] = EmptyQuery
      /\ \A i \in 1..n : f[i] = F[<<i, f[i - 1]>>]
  BY DEF Iterations
<1>5. ASSUME NEW i \in 1..n PROVE f[i] = Collect(f[i - 1], items[i])
  <2>1. <<i, f[i - 1]>> \in (1..n) \X Query
    BY <1>1, <1>4
  <2>2. F[<<i, f[i - 1]>>] = Collect(f[i - 1], items[i])
    BY <2>1
  <2> QED
    BY <2>2, <1>4
<1>6. Eq(f)
  <2>1. ASSUME NEW i \in 0..n PROVE f[i] = IF i = 0 THEN EmptyQuery ELSE Collect(f[i - 1], items[i])
    <3>1. i = 0 \/ i \in 1..n
      BY <1>1
    <3> QED
      BY <3>1, <1>4, <1>5
  <2> QED
    BY <2>1, <1>4
<1>7. Eq(h)
  <2> HIDE DEF Eq
  <2> QED
    BY <1>6
<1>8. collect_query(items) = h[n]
  BY DEF collect_query, n
<1> HIDE DEF h
<1>9. DOMAIN h = 0..n /\ h[0] = EmptyQuery
  <2>1. DOMAIN h = 0..n /\ 0 \in 0..n
    BY <1>7, <1>1
  <2> QED
    BY <2>1, <1>7
<1>10. ASSUME NEW i \in 1..n PROVE h[i] = Collect(h[i - 1], items[i])
  <2>1. i \in 0..n /\ i # 0
    BY <1>1
  <2> QED
    BY <2>1, <1>7
<1> QED
  BY <1>8, <1>9, <1>10 DEF n

\* A request built from ordered items asks for exactly these.
LEMMA CollectInverse ==
    ASSUME NEW items \in Seq(Item), Ordered(items)
    PROVE  collect_query(items) \in Query /\ flatten_query(collect_query(items)) = items
<1> DEFINE n == Len(items)
<1>1. PICK h : /\ h[0] = EmptyQuery /\ \A i \in 1..n : h[i] = Collect(h[i - 1], items[i])
               /\ collect_query(items) = h[n]
  BY CollectRuns
<1>2. n \in Nat /\ \A i \in 1..n : items[i] \in Item
  OBVIOUS
<1> DEFINE Good(i) == /\ h[i] \in Query /\ flatten_query(h[i]) = SubSeq(items, 1, i)
                      /\ h[i].contract_addresses # <<>> => \E j \in 1..i : items[j].kind = "contract"
                      /\ h[i].contract_storage_keys # <<>> => \E j \in 1..i : items[j].kind = "key"
           T == {i \in 0..n : Good(i)}
<1>3. Good(0)
  <2>1. EmptyQuery \in Query /\ EmptyQuery.contract_addresses = <<>>
        /\ EmptyQuery.contract_storage_keys = <<>> /\ EmptyQuery.class_hashes = <<>>
    BY DEF EmptyQuery, Query
  <2>2. flatten_query(EmptyQuery) = (<<>> \o <<>>) \o <<>>
    <3>1. ClassItems(<<>>) = <<>> /\ ContractItems(<<>>) = <<>> /\ KeyPart(<<>>) = <<>>
      BY FlattenEmpty DEF ClassItems, ContractItems, KeyPart, KeyRuns
    <3> QED
      BY <2>1, <3>1, FlatQuery
  <2>3. (<<>> \o <<>>) \o <<>> = SubSeq(items, 1, 0)
    OBVIOUS
  <2> QED
    BY <1>1, <2>1, <2>2, <2>3
<1>4. ASSUME NEW i \in 1..n, Good(i - 1) PROVE Good(i)
  <2> DEFINE q == h[i - 1]
             x == items[i]
  <2>1. /\ x \in Item /\ q \in Query /\ h[i] = Collect(q, x) /\ i - 1 \in Nat
        /\ flatten_query(q) = SubSeq(items, 1, i - 1)
    BY <1>1, <1>2, <1>4
  <2>2. /\ x.kind = "class" => q.contract_addresses = <<>> /\ q.contract_storage_keys = <<>>
        /\ x.kind = "contract" => q.contract_storage_keys = <<>>
    <3>1. \A j \in 1..(i - 1) : j \in 1..n /\ j < i
      BY <1>2
    <3>2. \A j \in 1..(i - 1) : /\ x.kind = "class" => items[j].kind = "class"
                                /\ x.kind = "contract" => items[j].kind # "key"
      BY <3>1 DEF Ordered
    <3> QED
      BY <3>2, <1>4
  <2>3. flatten_query(h[i]) = Append(SubSeq(items, 1, i - 1), x)
    <3> HIDE DEF q, x
    <3>1. flatten_query(Collect(q, x)) = Append(flatten_query(q), x)
      BY <2>1, <2>2, CollectStep
    <3> QED
      BY <2>1, <3>1
  <2>4. Append(SubSeq(items, 1, i - 1), x) = SubSeq(items, 1, i)
    <3>1. SubSeq(items, 1, i) = SubSeq(items, 1, i - 1) \o <<items[i]>>
      <4>1. 1 \in 1..Len(items) /\ i \in 1..Len(items)
        BY <1>2
      <4> QED
        BY <4>1, SubSeqRecursiveSecond
    <3>2. SubSeq(items, 1, i - 1) \in Seq(Item)
      BY <1>2, SubSeqProperties
    <3> QED
      BY <2>1, <3>1, <3>2, AppendIsConcat
  <2>5. /\ h[i] \in Query
        /\ h[i].contract_addresses # q.contract_addresses => x.kind = "contract"
        /\ h[i].contract_storage_keys # q.contract_storage_keys => x.kind = "key"
    <3> HIDE DEF q, x
    <3> QED
      BY <2>1, CollectStep
  <2>6. \A j \in 1..(i - 1) : j \in 1..i
    BY <1>2
  <2>7. i \in 1..i
    BY <1>2
  <2>8. h[i].contract_addresses # <<>> => \E j \in 1..i : items[j].kind = "contract"
    BY <2>5, <2>6, <2>7, <1>4
  <2>9. h[i].contract_storage_keys # <<>> => \E j \in 1..i : items[j].kind = "key"
    BY <2>5, <2>6, <2>7, <1>4
  <2> QED
    BY <2>3, <2>4, <2>5, <2>8, <2>9
<1> HIDE DEF Good
<1>5. 0..n \subseteq T
  <2>1. 0 \in T /\ \A i \in 1..n : i - 1 \in T => i \in T
    BY <1>2, <1>3, <1>4
  <2> HIDE DEF T, n
  <2> QED
    BY <1>2, <2>1, Induct
<1>6. Good(n)
  BY <1>2, <1>5
<1> QED
  BY <1>1, <1>6, SubSeqFull DEF Good

\* The items of a query are ordered, and so is every part of them.
LEMMA PartsOrdered ==
    ASSUME NEW q \in Query, NEW lo \in Nat \ {0}, NEW hi \in 0..Len(flatten_query(q))
    PROVE  LET s == SubSeq(flatten_query(q), lo, hi) IN s \in Seq(Item) /\ Ordered(s)
<1> DEFINE items == flatten_query(q)
           nc == Len(q.class_hashes)
           na == Len(q.contract_addresses)
           nk == Len(KeyPart(q.contract_storage_keys))
           s == SubSeq(items, lo, hi)
<1>1. /\ nc \in Nat /\ na \in Nat /\ nk \in Nat /\ Len(items) = nc + na + nk
      /\ \A p \in 1..nc : items[p].kind = "class"
      /\ \A p \in (nc + 1)..(nc + na) : items[p].kind = "contract"
      /\ \A p \in (nc + na + 1)..(nc + na + nk) : items[p].kind = "key"
  <2>1. /\ nc \in Nat /\ na \in Nat /\ nk \in Nat /\ Len(items) = nc + na + nk
        /\ \A p \in 1..nc : items[p] = QueryItem("class", q.class_hashes[p], None)
        /\ \A p \in (nc + 1)..(nc + na) :
               items[p] = QueryItem("contract", q.contract_addresses[p - nc], None)
        /\ \A p \in (nc + na + 1)..(nc + na + nk) : items[p].kind = "key"
    BY ItemAt
  <2> HIDE DEF items, nc, na, nk
  <2> QED
    BY <2>1, ItemFields
<1>2. items \in Seq(Item)
  BY FlatQuery
<1> HIDE DEF items, nc, na, nk
<1>3. ASSUME NEW i \in 1..Len(items), NEW j \in 1..Len(items), i < j
      PROVE  /\ items[j].kind = "class" => items[i].kind = "class"
             /\ items[j].kind = "contract" => items[i].kind # "key"
  BY <1>1, <1>3
<1>4. /\ s \in Seq(Item) /\ Len(s) = IF lo <= hi THEN hi - lo + 1 ELSE 0
      /\ \A i \in 1..(hi - lo + 1) : s[i] = items[lo + i - 1]
  <2>1. lo \in Int /\ hi \in Int /\ \A i \in lo..hi : items[i] \in Item
    BY <1>2 DEF items
  <2> QED
    BY <2>1, SubSeqProperties
<1>5. ASSUME NEW i \in 1..Len(s), NEW j \in 1..Len(s), i < j
      PROVE  /\ s[j].kind = "class" => s[i].kind = "class"
             /\ s[j].kind = "contract" => s[i].kind # "key"
  <2>1. hi \in 0..Len(items) /\ Len(items) \in Nat
    BY <1>2 DEF items
  <2> HIDE DEF s
  <2>2. i \in 1..(hi - lo + 1) /\ j \in 1..(hi - lo + 1)
    BY <2>1, <1>4
  <2>3. /\ lo + i - 1 \in 1..Len(items) /\ lo + j - 1 \in 1..Len(items)
        /\ lo + i - 1 < lo + j - 1
    BY <2>1, <2>2, <1>5
  <2> QED
    BY <2>2, <2>3, <1>3, <1>4
<1> QED
  BY <1>4, <1>5 DEF Ordered, items

-----------------------------------------------------------------------------
(* split_query and fetch_proofs: where the items are cut *)

\* Where the items of q are cut into the requests cs.
Cuts(q, cs) ==
    LET n == Len(flatten_query(q))
    IN  {u \in [0..Len(cs) -> 0..n] :
            /\ u[0] = 0 /\ u[Len(cs)] = n
            /\ \A i \in 1..Len(cs) :
                   /\ u[i - 1] <= u[i] /\ u[i] - u[i - 1] <= MaxKeys
                   /\ u[i - 1] < u[i] \/ n = 0
                   /\ flatten_query(cs[i]) = SubSeq(flatten_query(q), u[i - 1] + 1, u[i])}

\* Multiples grow.
LEMMA Multiples ==
    ASSUME NEW m \in Nat, NEW i \in Nat, NEW j \in Nat, i <= j
    PROVE  i * m <= j * m /\ i * m \in Nat
<1>1. i * m \in Nat /\ (j - i) * m \in Nat
  OBVIOUS
<1>2. j * m = i * m + (j - i) * m
  OBVIOUS
<1> QED
  BY <1>1, <1>2

\* The number of chunks: n divided by m and rounded up.
LEMMA RoundedUp ==
    ASSUME NEW n \in Nat \ {0}, NEW m \in Nat \ {0}
    PROVE  LET c == (n + m - 1) \div m
           IN  c \in Nat \ {0} /\ n <= c * m /\ (c - 1) * m < n
<1> DEFINE x == n + m - 1
           c == x \div m
           r == x % m
<1>1. x \in Nat /\ x >= m
  OBVIOUS
<1>2. c \in Int /\ r \in 0..(m - 1) /\ x = m * c + r
  <2> HIDE DEF x
  <2> QED
    BY <1>1
<1>3. c > 0
  <2>1. c <= 0 => m * c <= 0
    <3> HIDE DEF c
    <3> QED
      BY <1>2
  <2> HIDE DEF c, r, x
  <2> QED
    BY <2>1, <1>1, <1>2
<1>4. m * c = c * m /\ (c - 1) * m = c * m - m /\ c * m \in Int
  <2> HIDE DEF c
  <2> QED
    BY <1>2
<1> DEFINE d == c * m
<1>5. n + m - 1 = d + r /\ d \in Int
  <2> HIDE DEF c, r
  <2> QED
    BY <1>2, <1>4
<1> HIDE DEF c, r, d
<1>6. n <= d /\ d - m < n
  BY <1>2, <1>5
<1> QED
  BY <1>2, <1>3, <1>4, <1>6 DEF d, c

\* A query that does not fit is cut every MaxKeys items.
LEMMA SplitCut ==
    ASSUME NEW q \in Query, Len(flatten_query(q)) # 0
    PROVE  LET cs == split_query(q, MaxKeys)
           IN  cs \in Seq(Query) /\ Len(cs) # 0 /\ Cuts(q, cs) # {}
<1> DEFINE m == MaxKeys
           items == flatten_query(q)
           n == Len(items)
           c == (n + m - 1) \div m
           upto(i) == IF i * m < n THEN i * m ELSE n
           part(i) == SubSeq(items, (i - 1) * m + 1, upto(i))
           cs == split_query(q, MaxKeys)
           u == [i \in 0..c |-> upto(i)]
<1>1. m \in Nat \ {0} /\ n \in Nat \ {0} /\ items \in Seq(Item)
  <2>1. items \in Seq(Item) /\ n # 0
    BY FlatQuery
  <2> HIDE DEF items
  <2>2. n \in Nat
    BY <2>1, LenProperties
  <2>3. m \in Nat \ {0}
    BY ConstAssumption
  <2> HIDE DEF n, m
  <2> QED
    BY <2>1, <2>2, <2>3
<1>2. cs = [i \in 1..c |-> collect_query(part(i))]
  BY DEF split_query
<1>3. c \in Nat \ {0} /\ n <= c * m /\ (c - 1) * m < n
  <2> HIDE DEF n, m
  <2> QED
    BY <1>1, RoundedUp
<1> HIDE DEF m, c, cs
<1>4. ASSUME NEW i \in 0..c PROVE upto(i) \in 0..n /\ i * m \in Nat
  <2> HIDE DEF n
  <2>1. i \in Nat /\ 0 <= i
    BY <1>3
  <2>2. i * m \in Nat
    BY <2>1, <1>1
  <2> QED
    BY <2>2, <1>1
<1>5. ASSUME NEW i \in 1..c
      PROVE  /\ i - 1 \in 0..c /\ (i - 1) * m < n /\ upto(i - 1) = (i - 1) * m
             /\ i * m = (i - 1) * m + m
  <2> HIDE DEF n
  <2>1. i - 1 \in Nat /\ c - 1 \in Nat /\ i - 1 <= c - 1
    BY <1>3
  <2>2. (i - 1) * m <= (c - 1) * m /\ (i - 1) * m \in Nat /\ (c - 1) * m \in Nat
    BY <2>1, <1>1, Multiples
  <2>3. (i - 1) * m < n
    BY <2>2, <1>1, <1>3
  <2>4. i - 1 \in 0..c
    BY <1>3
  <2>5. i * m = (i - 1) * m + m
    BY <1>1, <1>3
  <2> QED
    BY <2>3, <2>4, <2>5
<1>6. ASSUME NEW i \in 1..c
      PROVE  /\ upto(i - 1) < upto(i) /\ upto(i) - upto(i - 1) <= m
             /\ part(i) = SubSeq(items, upto(i - 1) + 1, upto(i))
  <2> DEFINE x == (i - 1) * m
  <2>1. x \in Nat /\ x < n /\ upto(i - 1) = x /\ i * m = x + m
    BY <1>4, <1>5
  <2>2. upto(i) = IF x + m < n THEN x + m ELSE n
    BY <2>1
  <2>3. part(i) = SubSeq(items, x + 1, upto(i))
    OBVIOUS
  <2>4. x < upto(i) /\ upto(i) - x <= m
    <3> HIDE DEF x, upto, n
    <3> QED
      BY <2>1, <2>2, <1>1
  <2> HIDE DEF x, upto, part, n
  <2> QED
    BY <2>1, <2>3, <2>4
<1>7. ASSUME NEW i \in 1..c
      PROVE  collect_query(part(i)) \in Query /\ flatten_query(collect_query(part(i))) = part(i)
  <2>1. upto(i - 1) + 1 \in Nat \ {0} /\ upto(i) \in 0..n
    <3>1. i \in 0..c /\ i - 1 \in 0..c
      BY <1>3
    <3>2. upto(i - 1) \in 0..n /\ upto(i) \in 0..n
      BY <3>1, <1>4
    <3> HIDE DEF upto, n
    <3> QED
      BY <3>2, <1>1
  <2>2. part(i) \in Seq(Item) /\ Ordered(part(i))
    <3> HIDE DEF upto
    <3>1. SubSeq(items, upto(i - 1) + 1, upto(i)) \in Seq(Item)
          /\ Ordered(SubSeq(items, upto(i - 1) + 1, upto(i)))
      BY <2>1, PartsOrdered
    <3> HIDE DEF part
    <3> QED
      BY <3>1, <1>6
  <2> HIDE DEF part
  <2> QED
    BY <2>2, CollectInverse
<1>8. /\ cs \in Seq(Query) /\ Len(cs) = c
      /\ \A i \in 1..c : flatten_query(cs[i]) = part(i)
  <2> HIDE DEF part
  <2> QED
    BY <1>2, <1>3, <1>7
<1>9. u \in Cuts(q, cs)
  <2>1. u \in [0..c -> 0..n]
    <3> HIDE DEF upto, n
    <3> QED
      BY <1>4
  <2>2. u[0] = 0
    <3>1. 0 \in 0..c /\ upto(0) = 0
      <4> HIDE DEF n
      <4> QED
        BY <1>1, <1>3
    <3> HIDE DEF upto
    <3> QED
      BY <3>1
  <2>3. u[c] = n
    <3>1. c \in 0..c /\ upto(c) = n
      <4>1. c * m \in Nat /\ c \in 0..c
        BY <1>1, <1>3
      <4> HIDE DEF n
      <4> QED
        BY <4>1, <1>1, <1>3
    <3> HIDE DEF upto
    <3> QED
      BY <3>1
  <2>4. ASSUME NEW i \in 1..c
        PROVE  /\ u[i - 1] <= u[i] /\ u[i] - u[i - 1] <= m /\ u[i - 1] < u[i]
               /\ flatten_query(cs[i]) = SubSeq(items, u[i - 1] + 1, u[i])
    <3>1. i \in 0..c /\ i - 1 \in 0..c
      BY <1>3
    <3>2. u[i] = upto(i) /\ u[i - 1] = upto(i - 1)
      BY <3>1
    <3>3. upto(i) \in 0..n /\ upto(i - 1) \in 0..n
      BY <3>1, <1>4
    <3> HIDE DEF upto, u, n, part, items
    <3> QED
      BY <3>2, <3>3, <1>1, <1>6, <1>8
  <2> HIDE DEF u
  <2> QED
    BY <2>1, <2>2, <2>3, <2>4, <1>8 DEF Cuts, m
<1> QED
  BY <1>3, <1>8, <1>9 DEF cs

\* However large the query, its requests are cuts of its items.
LEMMA RequestsCut ==
    ASSUME NEW q \in Query
    PROVE  RequestsFor(q) \in Seq(Query) /\ Len(RequestsFor(q)) # 0 /\ Cuts(q, RequestsFor(q)) # {}
<1> DEFINE items == flatten_query(q)
           n == Len(items)
<1>1. count_total_keys(q) = n /\ n \in Nat /\ items \in Seq(Item) /\ MaxKeys \in Nat \ {0}
  BY TotalIsSize, FlatQuery, ConstAssumption
<1>2. CASE n <= MaxKeys
  <2> DEFINE cs == <<q>>
             u == [i \in 0..1 |-> IF i = 0 THEN 0 ELSE n]
  <2>1. RequestsFor(q) = cs
    BY <1>1, <1>2 DEF RequestsFor
  <2>2. cs \in Seq(Query) /\ Len(cs) = 1 /\ cs[1] = q
    OBVIOUS
  <2>3. items = SubSeq(items, 1, n)
    BY <1>1, SubSeqFull
  <2>4. u \in [0..1 -> 0..n] /\ u[0] = 0 /\ u[1] = n
    <3> HIDE DEF n
    <3> QED
      BY <1>1
  <2> HIDE DEF u, cs
  <2>5. ASSUME NEW i \in 1..1
        PROVE  /\ u[i - 1] <= u[i] /\ u[i] - u[i - 1] <= MaxKeys
               /\ u[i - 1] < u[i] \/ n = 0
               /\ flatten_query(cs[i]) = SubSeq(items, u[i - 1] + 1, u[i])
    <3>1. i = 1 /\ i - 1 = 0 /\ 0 + 1 = 1
      OBVIOUS
    <3> HIDE DEF n
    <3>2. 0 <= n /\ n - 0 <= MaxKeys /\ (0 < n \/ n = 0)
      BY <1>1, <1>2
    <3> QED
      BY <2>2, <2>3, <2>4, <3>1, <3>2
  <2>6. u \in Cuts(q, cs)
    BY <2>2, <2>4, <2>5 DEF Cuts
  <2> QED
    BY <2>1, <2>2, <2>6
<1>3. CASE ~(n <= MaxKeys)
  <2>1. RequestsFor(q) = split_query(q, MaxKeys)
    BY <1>1, <1>3 DEF RequestsFor
  <2>2. n # 0
    BY <1>1, <1>3
  <2> QED
    BY <2>1, <2>2, SplitCut
<1> QED
  BY <1>2, <1>3

\* A function on 1..k is a sequence of length k.
LEMMA FunctionIsSeq ==
    ASSUME NEW S, NEW k \in Nat, NEW s \in [1..k -> S]
    PROVE  s \in Seq(S) /\ Len(s) = k
OBVIOUS

\* Where a sequence can be cut into k pieces, and the pieces.
CutsOf(s, k) ==
    {u \in [0..k -> 0..Len(s)] : u[0] = 0 /\ u[k] = Len(s) /\ \A i \in 1..k : u[i - 1] <= u[i]}

Pieces(S, s, k, u) ==
    {ss \in Seq(Seq(S)) :
        Len(ss) = k /\ \A i \in 1..k : ss[i] = SubSeq(s, u[i - 1] + 1, u[i])}

\* Pieces between cuts make up the whole.
LEMMA PiecesMakeUp ==
    ASSUME NEW S, NEW s \in Seq(S), NEW k \in Nat, NEW u \in CutsOf(s, k),
           NEW ss \in Pieces(S, s, k, u)
    PROVE  FlattenSeq(ss) = s
<1> DEFINE n == Len(s)
           f == [i \in 0..k |-> SubSeq(s, 1, u[i])]
<1>0. /\ n \in Nat /\ \A i \in 0..k : u[i] \in 0..n
      /\ u[0] = 0 /\ u[k] = n /\ \A i \in 1..k : u[i - 1] <= u[i]
  BY DEF CutsOf
<1>3. /\ ss \in Seq(Seq(S)) /\ Len(ss) = k
      /\ \A i \in 1..k : ss[i] = SubSeq(s, u[i - 1] + 1, u[i])
  BY DEF Pieces
<1>1. ASSUME NEW i \in 0..k PROVE f[i] \in Seq(S)
  <2>1. \A j \in 1..u[i] : s[j] \in S
    BY <1>0
  <2>2. SubSeq(s, 1, u[i]) \in Seq(S)
    BY <2>1, <1>0, SubSeqProperties
  <2> QED
    BY <2>2
<1>2. ASSUME NEW i \in 1..k
      PROVE  /\ i - 1 \in 0..k /\ i \in 0..k
             /\ ss[i] \in Seq(S) /\ f[i] = f[i - 1] \o ss[i]
  <2>1. i - 1 \in 0..k /\ i \in 0..k /\ u[i - 1] \in 0..n /\ u[i] \in 0..n /\ u[i - 1] <= u[i]
    BY <1>0
  <2>3. ss[i] \in Seq(S) /\ ss[i] = SubSeq(s, u[i - 1] + 1, u[i])
    BY <1>3
  <2>4. SubSeq(s, 1, u[i - 1]) \o SubSeq(s, u[i - 1] + 1, u[i]) = SubSeq(s, 1, u[i])
    <3>1. 1 \in 1..(Len(s) + 1) /\ u[i - 1] \in (1 - 1)..Len(s) /\ u[i] \in u[i - 1]..Len(s)
      BY <2>1, <1>0
    <3> QED
      BY <3>1, ConcatAdjacentSubSeq
  <2> QED
    BY <2>1, <2>3, <2>4
<1>4. f[0] = <<>>
  <2>1. SubSeq(s, 1, 0) = <<>>
    OBVIOUS
  <2> QED
    BY <2>1, <1>0
<1>5. f \in Partials(S, ss)
  <2>1. f \in [0..k -> Seq(S)]
    BY <1>1
  <2> HIDE DEF f
  <2> QED
    BY <2>1, <1>2, <1>3, <1>4 DEF Partials
<1>6. f[k] = s
  <2>1. SubSeq(s, 1, n) = s
    BY SubSeqFull
  <2> QED
    BY <2>1, <1>0
<1> HIDE DEF f
<1> QED
  BY <1>3, <1>5, <1>6, FlattenIs

-----------------------------------------------------------------------------
(* The addresses of the requests *)

\* How many of the first p items of q are contract addresses.
AddressesIn(q, p) ==
    LET nc == Len(q.class_hashes)
        na == Len(q.contract_addresses)
    IN  IF p <= nc THEN 0 ELSE IF p <= nc + na THEN p - nc ELSE na

\* The addresses of a request are the part of the query's between its cuts.
LEMMA AddressesOfPart ==
    ASSUME NEW q \in Query, NEW c \in Query,
           NEW lo \in Nat, NEW hi \in 0..Len(flatten_query(q)), lo <= hi,
           flatten_query(c) = SubSeq(flatten_query(q), lo + 1, hi)
    PROVE  c.contract_addresses =
               SubSeq(q.contract_addresses, AddressesIn(q, lo) + 1, AddressesIn(q, hi))
<1> DEFINE items == flatten_query(q)
           addrs == q.contract_addresses
           nc == Len(q.class_hashes)
           na == Len(addrs)
           nk == Len(KeyPart(q.contract_storage_keys))
           caddrs == c.contract_addresses
           cc == Len(c.class_hashes)
           ca == Len(caddrs)
           ck == Len(KeyPart(c.contract_storage_keys))
           part == flatten_query(c)
           x == AddressesIn(q, lo)
           y == AddressesIn(q, hi)
<1>1. /\ nc \in Nat /\ na \in Nat /\ nk \in Nat /\ Len(items) = nc + na + nk
      /\ \A p \in 1..nc : items[p] = QueryItem("class", q.class_hashes[p], None)
      /\ \A p \in (nc + 1)..(nc + na) : items[p] = QueryItem("contract", addrs[p - nc], None)
      /\ \A p \in (nc + na + 1)..(nc + na + nk) : items[p].kind = "key"
  BY ItemAt
<1>2. /\ cc \in Nat /\ ca \in Nat /\ ck \in Nat /\ Len(part) = cc + ca + ck
      /\ \A p \in 1..cc : part[p] = QueryItem("class", c.class_hashes[p], None)
      /\ \A p \in (cc + 1)..(cc + ca) : part[p] = QueryItem("contract", caddrs[p - cc], None)
      /\ \A p \in (cc + ca + 1)..(cc + ca + ck) : part[p].kind = "key"
  BY ItemAt
<1>3. addrs \in Seq(Contracts) /\ caddrs \in Seq(Contracts) /\ items \in Seq(Item)
  BY FlatQuery
<1>4. /\ Len(part) = hi - lo
      /\ \A p \in 1..(hi - lo) : part[p] = items[lo + p]
  <2>1. hi \in Nat /\ lo + 1 \in Int /\ hi \in Int /\ \A i \in (lo + 1)..hi : items[i] \in Item
    BY <1>3
  <2>2. /\ Len(part) = IF lo + 1 <= hi THEN hi - (lo + 1) + 1 ELSE 0
        /\ \A i \in 1..(hi - (lo + 1) + 1) : part[i] = items[lo + 1 + i - 1]
    <3> HIDE DEF items
    <3>1. part = SubSeq(items, lo + 1, hi)
      BY DEF items
    <3> HIDE DEF part
    <3> QED
      BY <2>1, <3>1, SubSeqProperties
  <2>3. hi - (lo + 1) + 1 = hi - lo /\ \A i \in Int : lo + 1 + i - 1 = lo + i
    BY <2>1
  <2> HIDE DEF part, items
  <2> QED
    BY <2>1, <2>2, <2>3
<1>5. hi \in 0..(nc + na + nk)
  BY <1>1
<1>6. /\ x = IF lo <= nc THEN 0 ELSE IF lo <= nc + na THEN lo - nc ELSE na
      /\ y = IF hi <= nc THEN 0 ELSE IF hi <= nc + na THEN hi - nc ELSE na
  BY DEF AddressesIn
<1> HIDE DEF items, part, addrs, caddrs, nc, na, nk, cc, ca, ck, x, y
<1>7. ASSUME NEW p \in 1..(nc + na + nk)
      PROVE  items[p].kind = "contract" <=> nc < p /\ p <= nc + na
  <2>1. p \in 1..nc \/ p \in (nc + 1)..(nc + na) \/ p \in (nc + na + 1)..(nc + na + nk)
    BY <1>1
  <2> QED
    BY <2>1, <1>1, ItemFields
<1>8. ASSUME NEW p \in 1..(cc + ca + ck)
      PROVE  part[p].kind = "contract" <=> cc < p /\ p <= cc + ca
  <2>1. p \in 1..cc \/ p \in (cc + 1)..(cc + ca) \/ p \in (cc + ca + 1)..(cc + ca + ck)
    BY <1>2
  <2> QED
    BY <2>1, <1>2, ItemFields
<1>9. ASSUME NEW p \in 1..(hi - lo)
      PROVE  cc < p /\ p <= cc + ca <=> nc < lo + p /\ lo + p <= nc + na
  <2>1. lo + p \in 1..(nc + na + nk) /\ p \in 1..(cc + ca + ck)
    BY <1>1, <1>2, <1>4, <1>5
  <2>2. part[p] = items[lo + p]
    BY <1>4
  <2> QED
    BY <2>1, <2>2, <1>7, <1>8
<1>10. /\ hi - lo = cc + ca + ck /\ hi \in 0..(nc + na + nk)
       /\ nc \in Nat /\ na \in Nat /\ nk \in Nat /\ cc \in Nat /\ ca \in Nat /\ ck \in Nat
  BY <1>1, <1>2, <1>4, <1>5
<1>11. CASE ca = 0
  <2>1. y <= x
    <3> SUFFICES ASSUME x < y PROVE FALSE
      BY <1>6, <1>10
    <3> DEFINE p == x + 1 + nc - lo
    <3>1. p \in 1..(hi - lo) /\ nc < lo + p /\ lo + p <= nc + na
      BY <1>6, <1>10
    <3>2. ~(cc < p /\ p <= cc + ca)
      BY <3>1, <1>10, <1>11
    <3> HIDE DEF p
    <3> QED
      BY <3>1, <3>2, <1>9
  <2>2. x \in Nat /\ y \in Nat
    BY <1>6, <1>10
  <2>3. SubSeq(addrs, x + 1, y) = <<>>
    BY <2>1, <2>2, SubSeqEmpty
  <2>4. caddrs = <<>>
    BY <1>3, <1>11, EmptySeq DEF ca
  <2> QED
    BY <2>3, <2>4 DEF addrs, caddrs, x, y
<1>12. CASE ca # 0
  <2>1. cc + 1 \in 1..(hi - lo) /\ cc + ca \in 1..(hi - lo)
    BY <1>10, <1>12
  <2>2. nc < lo + (cc + 1) /\ lo + (cc + 1) <= nc + na
    <3>1. cc < cc + 1 /\ cc + 1 <= cc + ca
      BY <1>10, <1>12
    <3> QED
      BY <2>1, <3>1, <1>9
  <2>3. nc < lo + (cc + ca) /\ lo + (cc + ca) <= nc + na
    <3>1. cc < cc + ca /\ cc + ca <= cc + ca
      BY <1>10, <1>12
    <3> QED
      BY <2>1, <3>1, <1>9
  <2>4. cc = 0 \/ lo + cc <= nc
    <3> SUFFICES ASSUME cc # 0, ~(lo + cc <= nc) PROVE FALSE
      OBVIOUS
    <3>1. cc \in 1..(hi - lo) /\ nc < lo + cc /\ lo + cc <= nc + na
      BY <2>2, <1>10
    <3> QED
      BY <3>1, <1>9, <1>10
  <2>5. cc + ca = hi - lo \/ nc + na <= lo + cc + ca
    <3> SUFFICES ASSUME cc + ca # hi - lo, ~(nc + na <= lo + cc + ca) PROVE FALSE
      OBVIOUS
    <3> DEFINE p == cc + ca + 1
    <3>1. p \in 1..(hi - lo) /\ nc < lo + p /\ lo + p <= nc + na /\ ~(p <= cc + ca)
      BY <2>3, <1>10
    <3> HIDE DEF p
    <3> QED
      BY <3>1, <1>9
  <2>6. lo + cc = nc + x
    BY <2>2, <2>4, <1>6, <1>10
  <2>7. lo + cc + ca = nc + y
    BY <2>3, <2>5, <1>6, <1>10
  <2>8. x \in Nat /\ y \in Nat /\ y <= na /\ y - (x + 1) + 1 = ca /\ x + 1 <= y
    BY <2>6, <2>7, <1>6, <1>10, <1>12
  <2> DEFINE s == SubSeq(addrs, x + 1, y)
  <2>9. /\ s \in Seq(Contracts) /\ Len(s) = ca
        /\ \A j \in 1..ca : s[j] = addrs[x + j]
    <3>1. \A i \in (x + 1)..y : addrs[i] \in Contracts
      BY <2>8, <1>3 DEF na
    <3>2. \A j \in Int : x + 1 + j - 1 = x + j
      BY <2>8
    <3>4. x + 1 \in Int /\ y \in Int
      BY <2>8
    <3>3. /\ s \in Seq(Contracts) /\ Len(s) = IF x + 1 <= y THEN y - (x + 1) + 1 ELSE 0
          /\ \A j \in 1..(y - (x + 1) + 1) : s[j] = addrs[x + 1 + j - 1]
      BY <3>1, <3>4, SubSeqProperties
    <3> HIDE DEF s
    <3>5. Len(s) = ca
      BY <2>8, <3>3
    <3>6. \A j \in 1..ca : s[j] = addrs[x + 1 + j - 1]
      BY <2>8, <3>3
    <3>7. ASSUME NEW j \in 1..ca PROVE s[j] = addrs[x + j]
      <4>1. s[j] = addrs[x + 1 + j - 1] /\ x + 1 + j - 1 = x + j
        BY <3>2, <3>6
      <4> QED
        BY <4>1
    <3> QED
      BY <3>3, <3>5, <3>7
  <2>10. ASSUME NEW j \in 1..ca PROVE caddrs[j] = addrs[x + j]
    <3>1. /\ cc + j \in (cc + 1)..(cc + ca) /\ (cc + j) - cc = j /\ cc + j \in 1..(hi - lo)
          /\ lo + (cc + j) = nc + x + j /\ (nc + x + j) - nc = x + j
          /\ nc + x + j \in (nc + 1)..(nc + na)
      BY <2>6, <2>8, <1>10
    <3>2. part[cc + j] = QueryItem("contract", caddrs[j], None)
      BY <3>1, <1>2
    <3>3. items[nc + x + j] = QueryItem("contract", addrs[x + j], None)
      BY <3>1, <1>1
    <3>4. part[cc + j] = items[nc + x + j]
      BY <3>1, <1>4
    <3> QED
      BY <3>2, <3>3, <3>4, ItemFields
  <2>11. caddrs = s
    <3> HIDE DEF s
    <3> QED
      BY <2>9, <2>10, <1>3, SeqEqual DEF ca
  <2> QED
    BY <2>11 DEF addrs, caddrs, x, y
<1> QED
  BY <1>11, <1>12

\* The addresses of the requests, one after the other, are the query's.
LEMMA AddressesMakeUp ==
    ASSUME NEW q \in Query, NEW cs \in Seq(Query), NEW u \in Cuts(q, cs)
    PROVE  LET ss == [i \in 1..Len(cs) |-> cs[i].contract_addresses]
           IN  ss \in Seq(Seq(Contracts)) /\ Len(ss) = Len(cs) /\ FlattenSeq(ss) = q.contract_addresses
<1> DEFINE k == Len(cs)
           n == Len(flatten_query(q))
           nc == Len(q.class_hashes)
           na == Len(q.contract_addresses)
           nk == Len(KeyPart(q.contract_storage_keys))
           ss == [i \in 1..k |-> cs[i].contract_addresses]
           v == [i \in 0..k |-> AddressesIn(q, u[i])]
<1>1. /\ u \in [0..k -> 0..n] /\ u[0] = 0 /\ u[k] = n
      /\ \A i \in 1..k : /\ u[i - 1] <= u[i]
                         /\ flatten_query(cs[i]) = SubSeq(flatten_query(q), u[i - 1] + 1, u[i])
  BY DEF Cuts
<1>2. /\ nc \in Nat /\ na \in Nat /\ nk \in Nat /\ n = nc + na + nk
      /\ q.contract_addresses \in Seq(Contracts)
  BY ItemAt, FlatQuery
<1>3. k \in Nat /\ \A i \in 1..k : cs[i] \in Query
  OBVIOUS
<1>4. \A p \in 0..n : AddressesIn(q, p) \in 0..na
  <2>1. \A p \in 0..n : AddressesIn(q, p) = IF p <= nc THEN 0 ELSE IF p <= nc + na THEN p - nc ELSE na
    BY DEF AddressesIn
  <2> HIDE DEF n, nc, na, nk
  <2> QED
    BY <2>1, <1>2
<1>5. AddressesIn(q, 0) = 0 /\ AddressesIn(q, n) = na
  <2>1. \A p \in 0..n : AddressesIn(q, p) = IF p <= nc THEN 0 ELSE IF p <= nc + na THEN p - nc ELSE na
    BY DEF AddressesIn
  <2> HIDE DEF n, nc, na, nk
  <2> QED
    BY <2>1, <1>2
<1>6. \A p, r \in 0..n : p <= r => AddressesIn(q, p) <= AddressesIn(q, r)
  <2>1. \A p \in 0..n : AddressesIn(q, p) = IF p <= nc THEN 0 ELSE IF p <= nc + na THEN p - nc ELSE na
    BY DEF AddressesIn
  <2> HIDE DEF n, nc, na, nk
  <2> QED
    BY <2>1, <1>2
<1>7. ASSUME NEW i \in 1..k
      PROVE  /\ i - 1 \in 0..k /\ i \in 0..k /\ v[i - 1] <= v[i]
             /\ ss[i] = SubSeq(q.contract_addresses, v[i - 1] + 1, v[i])
  <2>1. i - 1 \in 0..k /\ i \in 0..k
    BY <1>3
  <2>2. u[i - 1] \in 0..n /\ u[i] \in 0..n /\ u[i - 1] <= u[i]
    BY <2>1, <1>1
  <2>3. u[i - 1] \in Nat
    <3> HIDE DEF n
    <3> QED
      BY <2>2
  <2>4. cs[i].contract_addresses =
            SubSeq(q.contract_addresses, AddressesIn(q, u[i - 1]) + 1, AddressesIn(q, u[i]))
    <3> DEFINE c == cs[i]
    <3>1. c \in Query /\ flatten_query(c) = SubSeq(flatten_query(q), u[i - 1] + 1, u[i])
      BY <1>1, <1>3
    <3> HIDE DEF c
    <3>2. c.contract_addresses =
              SubSeq(q.contract_addresses, AddressesIn(q, u[i - 1]) + 1, AddressesIn(q, u[i]))
      BY <3>1, <2>2, <2>3, AddressesOfPart
    <3> QED
      BY <3>2 DEF c
  <2>5. v[i - 1] = AddressesIn(q, u[i - 1]) /\ v[i] = AddressesIn(q, u[i])
    BY <2>1
  <2> HIDE DEF v, n, k
  <2> QED
    BY <2>1, <2>2, <2>4, <2>5, <1>6
<1>8. v \in [0..k -> 0..na] /\ v[0] = 0 /\ v[k] = na
  <2>1. 0 \in 0..k /\ k \in 0..k
    BY <1>3
  <2>2. \A i \in 0..k : v[i] = AddressesIn(q, u[i]) /\ u[i] \in 0..n
    BY <1>1
  <2> HIDE DEF n, na, k
  <2> QED
    BY <2>1, <2>2, <1>1, <1>4, <1>5
<1>9. ss \in Seq(Seq(Contracts)) /\ Len(ss) = k
  <2>1. ss \in [1..k -> Seq(Contracts)]
    BY <1>3, FlatQuery
  <2> HIDE DEF ss, k
  <2> QED
    BY <2>1, <1>3, FunctionIsSeq
<1>10. \A i \in 1..k : /\ v[i - 1] <= v[i]
                       /\ ss[i] = SubSeq(q.contract_addresses, v[i - 1] + 1, v[i])
  BY <1>7
<1> HIDE DEF v, k, ss
<1>11. FlattenSeq(ss) = q.contract_addresses
  <2> DEFINE addrs == q.contract_addresses
  <2>1. addrs \in Seq(Contracts) /\ v \in CutsOf(addrs, k)
    BY <1>2, <1>8, <1>10 DEF CutsOf
  <2>2. ss \in Pieces(Contracts, addrs, k, v)
    BY <1>9, <1>10 DEF Pieces
  <2> HIDE DEF addrs
  <2>3. FlattenSeq(ss) = addrs
    BY <2>1, <2>2, <1>3, PiecesMakeUp
  <2> QED
    BY <2>3 DEF addrs
<1> QED
  BY <1>9, <1>11 DEF ss, k

-----------------------------------------------------------------------------
(* What prepare_query builds, and what the requests ask for *)

\* A sequence of the elements of a set, each once.
LEMMA SetToSeqsIs ==
    ASSUME NEW S, IsFiniteSet(S), NEW s \in UNION {SetToSeqs(U) : U \in SUBSET S}
    PROVE  s \in Seq(S) /\ \A i, j \in 1..Len(s) : i # j => s[i] # s[j]
<1>1. PICK U \in SUBSET S : s \in SetToSeqs(U)
  OBVIOUS
<1>2. Cardinality(U) \in Nat
  BY FS_Subset, FS_CardinalityType
<1> DEFINE n == Cardinality(U)
<1>3. s \in [1..n -> U] /\ \A i, j \in 1..n : i # j => s[i] # s[j]
  BY <1>1 DEF SetToSeqs
<1> HIDE DEF n
<1>4. s \in Seq(U) /\ Len(s) = n
  BY <1>2, <1>3, FunctionIsSeq DEF n
<1> QED
  BY <1>3, <1>4, SeqMonotonic

\* What prepare_query guarantees: one entry of keys per address, and no
\* address twice.
Prepared(q) ==
    /\ q \in Query
    /\ Len(q.contract_storage_keys) = Len(q.contract_addresses)
    /\ \A i \in 1..Len(q.contract_addresses) :
           q.contract_storage_keys[i].contract_address = q.contract_addresses[i]
    /\ \A i, j \in 1..Len(q.contract_addresses) :
           i # j => q.contract_addresses[i] # q.contract_addresses[j]

\* Every query the call starts from is prepared.
LEMMA QueriesArePrepared == ASSUME NEW q \in Queries PROVE Prepared(q)
<1>1. PICK cs \in UNION {SetToSeqs(S) : S \in SUBSET Classes},
           addrs \in UNION {SetToSeqs(S) : S \in SUBSET Contracts},
           ks \in [Contracts -> UNION {SetToSeqs(S) : S \in SUBSET Keys}] :
           q = [class_hashes |-> cs, contract_addresses |-> addrs,
                contract_storage_keys |->
                    [i \in DOMAIN addrs |->
                        [contract_address |-> addrs[i], storage_keys |-> ks[addrs[i]]]]]
  BY DEF Queries, IsSorted
<1>2. IsFiniteSet(Classes) /\ IsFiniteSet(Contracts) /\ IsFiniteSet(Keys)
  BY ConstAssumption
<1>3. cs \in Seq(Classes) /\ addrs \in Seq(Contracts)
      /\ \A i, j \in 1..Len(addrs) : i # j => addrs[i] # addrs[j]
  BY <1>2, SetToSeqsIs
<1>4. \A a \in Contracts : ks[a] \in Seq(Keys)
  BY <1>2, SetToSeqsIs
<1> DEFINE csks == [i \in DOMAIN addrs |->
                       [contract_address |-> addrs[i], storage_keys |-> ks[addrs[i]]]]
           n == Len(addrs)
<1>5. n \in Nat /\ DOMAIN addrs = 1..n /\ \A i \in 1..n : addrs[i] \in Contracts
  BY <1>3
<1>6. csks \in [1..n -> ContractKeys]
  BY <1>4, <1>5 DEF ContractKeys
<1>7. csks \in Seq(ContractKeys) /\ Len(csks) = n
  <2> HIDE DEF csks, n
  <2> QED
    BY <1>5, <1>6, FunctionIsSeq
<1>8. \A i \in 1..n : csks[i].contract_address = addrs[i]
  BY <1>5
<1>9. q = [class_hashes |-> cs, contract_addresses |-> addrs, contract_storage_keys |-> csks]
  BY <1>1
<1> HIDE DEF csks
<1>10. q \in Query /\ q.contract_addresses = addrs /\ q.contract_storage_keys = csks
  BY <1>3, <1>7, <1>9 DEF Query
<1> QED
  BY <1>3, <1>7, <1>8, <1>10 DEF Prepared

\* The two ways to say that x occurs in s.
LEMMA SetOfSeq ==
    ASSUME NEW S, NEW s \in Seq(S), NEW x
    PROVE  x \in ToSet(s) <=> Contains(s, x)
BY DEF ToSet, Contains

\* The requests ask, between them, for what the query asks for.
LEMMA RequestsAsk ==
    ASSUME NEW q \in Query, NEW cs \in Seq(Query), NEW u \in Cuts(q, cs), NEW x
    PROVE  /\ FlattenSeq([i \in 1..Len(cs) |-> flatten_query(cs[i])]) = flatten_query(q)
           /\ Contains(flatten_query(q), x) <=> \E i \in 1..Len(cs) : Contains(flatten_query(cs[i]), x)
<1> DEFINE k == Len(cs)
           items == flatten_query(q)
           ss == [i \in 1..k |-> flatten_query(cs[i])]
<1>1. k \in Nat /\ (\A i \in 1..k : cs[i] \in Query) /\ items \in Seq(Item)
  BY FlatQuery
<1>2. /\ u \in [0..k -> 0..Len(items)] /\ u[0] = 0 /\ u[k] = Len(items)
      /\ \A i \in 1..k : u[i - 1] <= u[i] /\ flatten_query(cs[i]) = SubSeq(items, u[i - 1] + 1, u[i])
  BY DEF Cuts
<1>3. ss \in [1..k -> Seq(Item)] /\ \A i \in 1..k : ss[i] = flatten_query(cs[i])
  BY <1>1, FlatQuery
<1> HIDE DEF ss, k, items
<1>4. ss \in Seq(Seq(Item)) /\ Len(ss) = k
  BY <1>1, <1>3, FunctionIsSeq
<1>5. u \in CutsOf(items, k) /\ ss \in Pieces(Item, items, k, u)
  BY <1>2, <1>3, <1>4 DEF CutsOf, Pieces
<1>6. FlattenSeq(ss) = items
  BY <1>1, <1>5, PiecesMakeUp
<1>7. Contains(FlattenSeq(ss), x) <=> \E i \in 1..k : Contains(ss[i], x)
  BY <1>4, FlattenElements
<1> QED
  BY <1>3, <1>6, <1>7 DEF ss, k, items

-----------------------------------------------------------------------------
(* merge_storage_proofs *)

\* What the leaves of replies are.
Leaves == {Leaf(v, a) : v \in Branches, a \in Contracts}

\* A reply, short or not, has a leaf for each of the first addresses.
LEMMA LeavesOfReply ==
    ASSUME NEW v \in Branches, NEW q \in Query, NEW fault
    PROVE  LET s == Shorten(Reply(v, q), fault).leaves
               addrs == q.contract_addresses
           IN  /\ s \in Seq(Leaves) /\ Len(s) <= Len(addrs)
               /\ \A i \in 1..Len(s) : s[i] = Leaf(v, addrs[i])
<1> DEFINE addrs == q.contract_addresses
           r == Reply(v, q)
           p == Shorten(r, fault)
           n == Len(addrs)
<1>1. addrs \in Seq(Contracts) /\ n \in Nat /\ DOMAIN addrs = 1..n /\ \A i \in 1..n : addrs[i] \in Contracts
  <2>1. addrs \in Seq(Contracts)
    BY FlatQuery
  <2> HIDE DEF addrs
  <2> QED
    BY <2>1
<1>2. r.leaves = [i \in DOMAIN addrs |-> Leaf(v, addrs[i])]
  BY DEF Reply
<1>3. r.leaves \in [1..n -> Leaves] /\ \A i \in 1..n : r.leaves[i] = Leaf(v, addrs[i])
  <2> HIDE DEF addrs, n, r
  <2> QED
    BY <1>1, <1>2 DEF Leaves
<1>4. p.leaves = r.leaves \/ (p.leaves = Front(r.leaves) /\ r.leaves # <<>>)
  <2>1. \A x : /\ [r EXCEPT !.leaves = x].leaves = x
               /\ [r EXCEPT !.storage = x].leaves = r.leaves
    BY DEF Reply
  <2> HIDE DEF r
  <2> QED
    BY <2>1 DEF Shorten
<1> HIDE DEF r, n, addrs, p
<1> DEFINE t == r.leaves
<1>5. t \in Seq(Leaves) /\ Len(t) = n /\ \A i \in 1..n : t[i] = Leaf(v, addrs[i])
  <2>1. t \in [1..n -> Leaves] /\ \A i \in 1..n : t[i] = Leaf(v, addrs[i])
    BY <1>3
  <2> HIDE DEF t
  <2> QED
    BY <2>1, <1>1, FunctionIsSeq
<1> HIDE DEF t
<1>6. t # <<>> => /\ Front(t) \in Seq(Leaves) /\ Len(Front(t)) = n - 1
                  /\ \A i \in 1..(n - 1) : Front(t)[i] = t[i]
  BY <1>1, <1>5 DEF Front
<1>7. p.leaves = t \/ (p.leaves = Front(t) /\ t # <<>>)
  BY <1>4 DEF t
<1>8. p.leaves \in Seq(Leaves) /\ Len(p.leaves) <= n
      /\ \A i \in 1..Len(p.leaves) : p.leaves[i] = Leaf(v, addrs[i])
  <2>1. CASE p.leaves = t
    BY <2>1, <1>1, <1>5
  <2>2. CASE p.leaves = Front(t) /\ t # <<>>
    BY <2>2, <1>1, <1>5, <1>6
  <2> QED
    BY <2>1, <2>2, <1>7
<1> QED
  BY <1>8 DEF r, n, addrs, p

\* Nothing is missing from the reply to a request that no fault befalls.
LEMMA NoFault ==
    ASSUME NEW p PROVE Shorten(p, None) = p
BY ConstAssumption DEF Shorten

\* A node of several paths is on one of them.
LEMMA PathsHas ==
    ASSUME NEW t, NEW ks, NEW x
    PROVE  x \in Paths(t, ks) <=> \E k \in ks : x \in PathTo(t, k)
BY DEF Paths

\* The replies of one branch to all requests.
Replied(v, cs) == [c \in 1..Len(cs) |-> Reply(v, cs[c])]

\* The nodes of the classes and of the contracts.
LEMMA MergedTries ==
    ASSUME NEW v, NEW q \in Query, NEW cs \in Seq(Query), NEW u \in Cuts(q, cs)
    PROVE  /\ UNION {Replied(v, cs)[c].classes_proof : c \in DOMAIN Replied(v, cs)} = Reply(v, q).classes_proof
           /\ UNION {Replied(v, cs)[c].nodes : c \in DOMAIN Replied(v, cs)} = Reply(v, q).nodes
<1> DEFINE ps == Replied(v, cs)
           k == Len(cs)
<1>1. /\ DOMAIN ps = 1..k /\ \A c \in 1..k : ps[c] = Reply(v, cs[c]) /\ cs[c] \in Query
  BY DEF Replied
<1>2. \A r : /\ Reply(v, r).classes_proof = Paths(ClassesTrie(v), ToSet(r.class_hashes))
             /\ Reply(v, r).nodes = Paths(ContractsTrie(v), ToSet(r.contract_addresses))
  BY DEF Reply
<1> HIDE DEF ps, k
<1>3. ASSUME NEW h
      PROVE  h \in ToSet(q.class_hashes) <=> \E c \in 1..k : h \in ToSet(cs[c].class_hashes)
  <2> DEFINE x == QueryItem("class", h, None)
  <2>1. Contains(flatten_query(q), x) <=> \E c \in 1..k : Contains(flatten_query(cs[c]), x)
    BY RequestsAsk DEF k
  <2>2. \A r \in Query : h \in ToSet(r.class_hashes) <=> Contains(flatten_query(r), x)
    BY FlatQuery, AsksFor, SetOfSeq
  <2> HIDE DEF x
  <2> QED
    BY <2>1, <2>2, <1>1
<1>4. ASSUME NEW a
      PROVE  a \in ToSet(q.contract_addresses) <=> \E c \in 1..k : a \in ToSet(cs[c].contract_addresses)
  <2> DEFINE x == QueryItem("contract", a, None)
  <2>1. Contains(flatten_query(q), x) <=> \E c \in 1..k : Contains(flatten_query(cs[c]), x)
    BY RequestsAsk DEF k
  <2>2. \A r \in Query : a \in ToSet(r.contract_addresses) <=> Contains(flatten_query(r), x)
    BY FlatQuery, AsksFor, SetOfSeq
  <2> HIDE DEF x
  <2> QED
    BY <2>1, <2>2, <1>1
<1>5. UNION {ps[c].classes_proof : c \in DOMAIN ps} = Reply(v, q).classes_proof
  <2> DEFINE t == ClassesTrie(v)
  <2>1. UNION {ps[c].classes_proof : c \in DOMAIN ps} = UNION {Paths(t, ToSet(cs[c].class_hashes)) : c \in 1..k}
    BY <1>1, <1>2
  <2>2. Reply(v, q).classes_proof = Paths(t, ToSet(q.class_hashes))
    BY <1>2
  <2> HIDE DEF t
  <2>3. ASSUME NEW x PROVE x \in UNION {Paths(t, ToSet(cs[c].class_hashes)) : c \in 1..k}
                           <=> x \in Paths(t, ToSet(q.class_hashes))
    BY <1>3, PathsHas
  <2> QED
    BY <2>1, <2>2, <2>3
<1>6. UNION {ps[c].nodes : c \in DOMAIN ps} = Reply(v, q).nodes
  <2> DEFINE t == ContractsTrie(v)
  <2>1. UNION {ps[c].nodes : c \in DOMAIN ps} = UNION {Paths(t, ToSet(cs[c].contract_addresses)) : c \in 1..k}
    BY <1>1, <1>2
  <2>2. Reply(v, q).nodes = Paths(t, ToSet(q.contract_addresses))
    BY <1>2
  <2> HIDE DEF t
  <2>3. ASSUME NEW x PROVE x \in UNION {Paths(t, ToSet(cs[c].contract_addresses)) : c \in 1..k}
                           <=> x \in Paths(t, ToSet(q.contract_addresses))
    BY <1>4, PathsHas
  <2> QED
    BY <2>1, <2>2, <2>3
<1> QED
  BY <1>5, <1>6 DEF ps

\* The nodes of the storage of each contract, however its keys were cut.
LEMMA MergedStorage ==
    ASSUME NEW v, NEW q, Prepared(q), NEW cs \in Seq(Query), NEW u \in Cuts(q, cs),
           NEW i \in 1..Len(q.contract_storage_keys)
    PROVE  LET csk == q.contract_storage_keys[i]
               a == csk.contract_address
           IN  StorageFor(Replied(v, cs), cs, i, a) = Paths(TrieOf(v, a), ToSet(csk.storage_keys))
<1> DEFINE ps == Replied(v, cs)
           k == Len(cs)
           csks == q.contract_storage_keys
           csk == csks[i]
           a == csk.contract_address
           t == TrieOf(v, a)
           Has(c, j, y) == \E l \in ToSet(cs[c].contract_storage_keys[j].storage_keys) : y \in PathTo(t, l)
<1>1. /\ DOMAIN ps = 1..k /\ \A c \in 1..k : ps[c] = Reply(v, cs[c]) /\ cs[c] \in Query
  BY DEF Replied
<1>2. q \in Query /\ csks \in Seq(ContractKeys)
  BY FlatQuery DEF Prepared
<1>3. \A j \in 1..Len(csks) : csks[j].contract_address = a => j = i
  BY DEF Prepared
<1>4. ASSUME NEW c \in 1..k
      PROVE  LET ks == cs[c].contract_storage_keys
             IN  /\ ks \in Seq(ContractKeys) /\ DOMAIN ps[c].storage = 1..Len(ks)
                 /\ \A j \in 1..Len(ks) :
                        /\ ks[j].storage_keys \in Seq(Keys)
                        /\ ps[c].storage[j] =
                               Paths(TrieOf(v, ks[j].contract_address), ToSet(ks[j].storage_keys))
  <2> DEFINE ks == cs[c].contract_storage_keys
  <2>1. ks \in Seq(ContractKeys)
    BY <1>1, FlatQuery
  <2>2. ps[c].storage = [j \in DOMAIN ks |->
                            Paths(TrieOf(v, ks[j].contract_address), ToSet(ks[j].storage_keys))]
    BY <1>1 DEF Reply
  <2> HIDE DEF ks
  <2>3. DOMAIN ks = 1..Len(ks) /\ \A j \in 1..Len(ks) : ks[j] \in ContractKeys
    BY <2>1
  <2>4. \A j \in 1..Len(ks) : ks[j].storage_keys \in Seq(Keys)
    BY <2>3 DEF ContractKeys
  <2>5. DOMAIN ps[c].storage = 1..Len(ks) /\
        \A j \in 1..Len(ks) : ps[c].storage[j] =
            Paths(TrieOf(v, ks[j].contract_address), ToSet(ks[j].storage_keys))
    BY <2>2, <2>3
  <2> QED
    BY <2>1, <2>4, <2>5 DEF ks
<1>5. csk.storage_keys \in Seq(Keys)
  <2>1. csk \in ContractKeys
    <3>1. i \in 1..Len(csks)
      OBVIOUS
    <3> HIDE DEF csks
    <3> QED
      BY <3>1, <1>2
  <2> QED
    BY <2>1 DEF ContractKeys
<1> DEFINE Keyed(l) == \E c \in 1..k : \E j \in 1..Len(cs[c].contract_storage_keys) :
                           /\ cs[c].contract_storage_keys[j].contract_address = a
                           /\ Contains(cs[c].contract_storage_keys[j].storage_keys, l)
<1>6. ASSUME NEW l PROVE Contains(csk.storage_keys, l) <=> Keyed(l)
  <2> DEFINE x == QueryItem("key", a, l)
  <2>1. Contains(flatten_query(q), x) <=> \E c \in 1..k : Contains(flatten_query(cs[c]), x)
    BY <1>2, RequestsAsk
  <2>2. Contains(flatten_query(q), x) <=> Contains(csk.storage_keys, l)
    <3>1. Contains(flatten_query(q), x) <=>
              \E j \in 1..Len(csks) : csks[j].contract_address = a /\ Contains(csks[j].storage_keys, l)
      BY <1>2, AsksFor
    <3> QED
      BY <3>1, <1>3
  <2>3. ASSUME NEW c \in 1..k
        PROVE  Contains(flatten_query(cs[c]), x) <=>
                   \E j \in 1..Len(cs[c].contract_storage_keys) :
                       /\ cs[c].contract_storage_keys[j].contract_address = a
                       /\ Contains(cs[c].contract_storage_keys[j].storage_keys, l)
    <3> DEFINE r == cs[c]
    <3>1. r \in Query
      BY <1>1
    <3> HIDE DEF r, a
    <3>2. Contains(flatten_query(r), x) <=>
              \E j \in 1..Len(r.contract_storage_keys) :
                  /\ r.contract_storage_keys[j].contract_address = a
                  /\ Contains(r.contract_storage_keys[j].storage_keys, l)
      BY <3>1, AsksFor
    <3> QED
      BY <3>2 DEF r
  <2> HIDE DEF x
  <2> QED
    BY <2>1, <2>2, <2>3
<1>7. ASSUME NEW y
      PROVE  y \in StorageFor(ps, cs, i, a) <=> \E l : Keyed(l) /\ y \in PathTo(t, l)
  <2>1. y \in StorageFor(ps, cs, i, a) <=>
            \E c \in 1..k : \E j \in DOMAIN ps[c].storage :
                cs[c].contract_storage_keys[j].contract_address = a /\ y \in ps[c].storage[j]
    <3> HIDE DEF ps, a, k
    <3> QED
      BY <1>1 DEF StorageFor
  <2>2. ASSUME NEW c \in 1..k
        PROVE  (\E j \in DOMAIN ps[c].storage :
                   cs[c].contract_storage_keys[j].contract_address = a /\ y \in ps[c].storage[j])
               <=> \E j \in 1..Len(cs[c].contract_storage_keys) :
                       /\ cs[c].contract_storage_keys[j].contract_address = a
                       /\ \E l : /\ Contains(cs[c].contract_storage_keys[j].storage_keys, l)
                                 /\ y \in PathTo(t, l)
    <3> DEFINE ks == cs[c].contract_storage_keys
    <3>1. /\ DOMAIN ps[c].storage = 1..Len(ks)
          /\ \A j \in 1..Len(ks) :
                 /\ ks[j].storage_keys \in Seq(Keys)
                 /\ ps[c].storage[j] = Paths(TrieOf(v, ks[j].contract_address), ToSet(ks[j].storage_keys))
      BY <1>4
    <3> HIDE DEF ks, ps, a
    <3>2. ASSUME NEW j \in 1..Len(ks), ks[j].contract_address = a
          PROVE  y \in ps[c].storage[j]
                 <=> \E l : Contains(ks[j].storage_keys, l) /\ y \in PathTo(t, l)
      <4>1. ps[c].storage[j] = Paths(t, ToSet(ks[j].storage_keys))
        BY <3>1, <3>2
      <4>2. \A l : l \in ToSet(ks[j].storage_keys) <=> Contains(ks[j].storage_keys, l)
        BY <3>1, SetOfSeq
      <4> HIDE DEF t
      <4> QED
        BY <4>1, <4>2, PathsHas
    <3>3. (\E j \in DOMAIN ps[c].storage : ks[j].contract_address = a /\ y \in ps[c].storage[j])
          <=> \E j \in 1..Len(ks) :
                  /\ ks[j].contract_address = a
                  /\ \E l : Contains(ks[j].storage_keys, l) /\ y \in PathTo(t, l)
      <4> HIDE DEF t
      <4> QED
        BY <3>1, <3>2
    <3> QED
      BY <3>3 DEF ks
  <2> HIDE DEF ps, a, t, k
  <2> QED
    BY <2>1, <2>2
<1>8. ASSUME NEW y
      PROVE  y \in StorageFor(ps, cs, i, a) <=> y \in Paths(t, ToSet(csk.storage_keys))
  <2>1. y \in Paths(t, ToSet(csk.storage_keys)) <=> \E l : Contains(csk.storage_keys, l) /\ y \in PathTo(t, l)
    <3> DEFINE ks == csk.storage_keys
    <3>1. \A l : l \in ToSet(ks) <=> Contains(ks, l)
      <4> HIDE DEF ks
      <4> QED
        BY <1>5, SetOfSeq DEF ks
    <3> HIDE DEF ks, t
    <3>2. y \in Paths(t, ToSet(ks)) <=> \E l : Contains(ks, l) /\ y \in PathTo(t, l)
      BY <3>1, PathsHas
    <3> QED
      BY <3>2 DEF ks
  <2> HIDE DEF Keyed, csk, t
  <2> QED
    BY <2>1, <1>6, <1>7
<1> QED
  BY <1>8

\* The leaves of all replies.
LeavesOf(ps) == FlattenSeq([c \in DOMAIN ps |-> ps[c].leaves])

\* ps are the replies to all requests, from the branches in V.
Answered(cs, fr, ps, V) ==
    /\ DOMAIN ps = 1..Len(cs)
    /\ \A c \in 1..Len(cs) :
           fr[c].branch \in V /\ ps[c] = Shorten(Reply(fr[c].branch, cs[c]), fr[c].fault)

\* The leaves of the replies, one after the other, are those of the query's
\* addresses if there are as many.
LEMMA MergedLeaves ==
    ASSUME NEW q \in Query, NEW cs \in Seq(Query), NEW u \in Cuts(q, cs),
           NEW V \in SUBSET Branches, NEW fr, NEW ps, Answered(cs, fr, ps, V),
           Len(LeavesOf(ps)) = Len(q.contract_addresses)
    PROVE  /\ LeavesOf(ps) \in Seq(Leaves)
           /\ \A j \in 1..Len(LeavesOf(ps)) :
                  \E v \in V : LeavesOf(ps)[j] = Leaf(v, q.contract_addresses[j])
<1> DEFINE k == Len(cs)
           ss == [c \in DOMAIN ps |-> ps[c].leaves]
           uu == [c \in 1..k |-> cs[c].contract_addresses]
           addrs == q.contract_addresses
           R == {<<Leaf(v, a), a>> : v \in V, a \in Contracts}
<1>1. k \in Nat /\ \A c \in 1..k : cs[c] \in Query
  OBVIOUS
<1>2. uu \in Seq(Seq(Contracts)) /\ Len(uu) = k /\ FlattenSeq(uu) = addrs
  BY AddressesMakeUp
<1>3. ASSUME NEW c \in 1..k
      PROVE  /\ ss[c] = ps[c].leaves /\ ss[c] \in Seq(Leaves) /\ Len(ss[c]) <= Len(uu[c])
             /\ \A j \in 1..Len(ss[c]) : <<ss[c][j], uu[c][j]>> \in R
  <2> DEFINE r == cs[c]
             b == fr[c].branch
             f == fr[c].fault
             s == Shorten(Reply(b, r), f).leaves
             w == r.contract_addresses
  <2>1. r \in Query /\ b \in V /\ b \in Branches /\ ss[c] = s /\ uu[c] = w
    BY <1>1 DEF Answered
  <2>2. ss[c] = ps[c].leaves
    BY DEF Answered
  <2>3. /\ s \in Seq(Leaves) /\ Len(s) <= Len(w)
        /\ \A i \in 1..Len(s) : s[i] = Leaf(b, w[i])
    <3> HIDE DEF r, b, f
    <3> QED
      BY <2>1, LeavesOfReply
  <2>4. w \in Seq(Contracts)
    <3> HIDE DEF r
    <3> QED
      BY <2>1, FlatQuery
  <2> HIDE DEF s, w, b, r, ss, uu
  <2>5. Len(s) \in Nat /\ Len(w) \in Nat
    BY <2>3, <2>4
  <2>6. ASSUME NEW j \in 1..Len(s) PROVE <<s[j], w[j]>> \in R
    <3>1. j \in 1..Len(w)
      BY <2>3, <2>5
    <3>2. w[j] \in Contracts /\ s[j] = Leaf(b, w[j])
      BY <3>1, <2>3, <2>4
    <3> QED
      BY <3>2, <2>1
  <2> QED
    BY <2>1, <2>2, <2>3, <2>6
<1>4. ss \in Seq(Seq(Leaves)) /\ Len(ss) = k
  <2>1. ss \in [1..k -> Seq(Leaves)]
    BY <1>3 DEF Answered
  <2> HIDE DEF ss, k
  <2> QED
    BY <2>1, <1>1, FunctionIsSeq
<1>5. Len(FlattenSeq(ss)) = Len(FlattenSeq(uu))
  BY <1>2 DEF LeavesOf
<1>6. addrs \in Seq(Contracts)
  BY FlatQuery
<1> HIDE DEF ss, uu, k, addrs
<1>7. \A j \in 1..Len(FlattenSeq(ss)) : <<FlattenSeq(ss)[j], FlattenSeq(uu)[j]>> \in R
  <2> HIDE DEF R
  <2> QED
    BY <1>2, <1>3, <1>4, <1>5, FlattenZip
<1>8. FlattenSeq(ss) \in Seq(Leaves)
  BY <1>4, FlattenPrefixes
<1>9. ASSUME NEW j \in 1..Len(FlattenSeq(ss))
      PROVE  \E v \in V : FlattenSeq(ss)[j] = Leaf(v, addrs[j])
  <2>1. <<FlattenSeq(ss)[j], addrs[j]>> \in R
    BY <1>2, <1>7
  <2> QED
    BY <2>1
<1> QED
  BY <1>8, <1>9 DEF LeavesOf, ss, addrs

\* Merging the replies to all requests gives the reply to the query.
LEMMA MergedReply ==
    ASSUME NEW q, Prepared(q), NEW cs \in Seq(Query), Len(cs) # 0, NEW u \in Cuts(q, cs),
           NEW v \in Branches,
           Len(merge_storage_proofs(Replied(v, cs), cs, q).leaves) = Len(q.contract_addresses)
    PROVE  merge_storage_proofs(Replied(v, cs), cs, q) = Reply(v, q)
<1> DEFINE ps == Replied(v, cs)
           k == Len(cs)
           m == merge_storage_proofs(ps, cs, q)
           r == Reply(v, q)
           addrs == q.contract_addresses
           csks == q.contract_storage_keys
<1>1. k \in Nat /\ k # 0 /\ DOMAIN ps = 1..k /\ \A c \in 1..k : ps[c] = Reply(v, cs[c])
  BY DEF Replied
<1>2. q \in Query /\ addrs \in Seq(Contracts) /\ csks \in Seq(ContractKeys)
  BY FlatQuery DEF Prepared
<1>3. m.global_roots = r.global_roots
  BY <1>1 DEF merge_storage_proofs, Reply
<1>4. m.classes_proof = r.classes_proof /\ m.nodes = r.nodes
  BY <1>2, MergedTries DEF merge_storage_proofs
<1>5. m.storage = r.storage
  <2>1. DOMAIN csks = 1..Len(csks)
    <3> HIDE DEF csks
    <3> QED
      BY <1>2
  <2>2. m.storage = [i \in 1..Len(csks) |-> StorageFor(ps, cs, i, csks[i].contract_address)]
    BY <2>1 DEF merge_storage_proofs
  <2>3. r.storage = [i \in 1..Len(csks) |->
                        Paths(TrieOf(v, csks[i].contract_address), ToSet(csks[i].storage_keys))]
    BY <2>1 DEF Reply
  <2>4. ASSUME NEW i \in 1..Len(csks)
        PROVE  StorageFor(ps, cs, i, csks[i].contract_address)
               = Paths(TrieOf(v, csks[i].contract_address), ToSet(csks[i].storage_keys))
    BY MergedStorage
  <2> HIDE DEF ps, m, r, csks
  <2> QED
    BY <2>2, <2>3, <2>4
<1>6. m.leaves = r.leaves
  <2> DEFINE s == LeavesOf(ps)
             fr == [c \in 1..k |-> [branch |-> v, fault |-> None]]
             V == {v}
  <2>1. m.leaves = s /\ Len(s) = Len(addrs)
    BY DEF merge_storage_proofs, LeavesOf
  <2>2. Answered(cs, fr, ps, V)
    BY <1>1, NoFault DEF Answered
  <2>3. s \in Seq(Leaves) /\ \A j \in 1..Len(s) : \E b \in V : s[j] = Leaf(b, addrs[j])
    <3>1. V \in SUBSET Branches
      OBVIOUS
    <3>2. q \in Query /\ Len(LeavesOf(ps)) = Len(q.contract_addresses)
      BY <1>2, <2>1
    <3> HIDE DEF fr, ps, V
    <3>3. LeavesOf(ps) \in Seq(Leaves)
      BY ONLY <2>2, <3>1, <3>2, MergedLeaves, cs \in Seq(Query), u \in Cuts(q, cs)
    <3>4. \A j \in 1..Len(LeavesOf(ps)) :
              \E b \in V : LeavesOf(ps)[j] = Leaf(b, q.contract_addresses[j])
      BY ONLY <2>2, <3>1, <3>2, MergedLeaves, cs \in Seq(Query), u \in Cuts(q, cs)
    <3> QED
      BY <3>3, <3>4
  <2>4. r.leaves = [i \in DOMAIN addrs |-> Leaf(v, addrs[i])]
    BY DEF Reply
  <2>5. DOMAIN addrs = 1..Len(addrs)
    <3> HIDE DEF addrs
    <3> QED
      BY <1>2
  <2>6. s = [i \in 1..Len(s) |-> s[i]]
    <3> HIDE DEF s
    <3> QED
      BY <2>3
  <2> HIDE DEF s, r, addrs, m
  <2>7. \A j \in 1..Len(s) : s[j] = Leaf(v, addrs[j])
    BY <2>3
  <2> QED
    BY <2>1, <2>4, <2>5, <2>6, <2>7
<1>7. /\ m = [global_roots |-> m.global_roots, classes_proof |-> m.classes_proof,
              nodes |-> m.nodes, leaves |-> m.leaves, storage |-> m.storage]
      /\ r = [global_roots |-> r.global_roots, classes_proof |-> r.classes_proof,
              nodes |-> r.nodes, leaves |-> r.leaves, storage |-> r.storage]
  BY DEF merge_storage_proofs, Reply
<1> HIDE DEF m, r
<1>8. m = r
  BY <1>3, <1>4, <1>5, <1>6, <1>7
<1> QED
  BY <1>8 DEF m, r, ps

-----------------------------------------------------------------------------
(* The facts database *)

\* What create_facts_db makes of any proof.
LEMMA FactsOfAProof ==
    ASSUME NEW p, NEW n \in InnerNodes(p)
    PROVE  create_facts_db(p)[n] = "node" /\ Children(n) \subseteq DOMAIN create_facts_db(p)
<1> DEFINE db == [h \in InnerNodes(p) |-> "node"]
           orphans == UNION {Orphans(b) : b \in Batches(p)}
<1>1. /\ create_facts_db(p) = WithDummies(db, orphans)
      /\ DOMAIN db = InnerNodes(p) /\ db[n] = "node"
  BY DEF create_facts_db
<1>2. PICK b \in Batches(p) : n \in b
  BY DEF InnerNodes
<1>3. Children(n) \subseteq b \cup Orphans(b)
  BY <1>2 DEF Orphans
<1>4. b \subseteq InnerNodes(p) /\ Orphans(b) \subseteq orphans
  BY DEF InnerNodes
<1> HIDE DEF db, orphans
<1> QED
  BY <1>1, <1>3, <1>4 DEF WithDummies

-----------------------------------------------------------------------------
(* The invariant *)

\* What the node answers, and where an answer came from.
Replies == {Shorten(Reply(v, q), f) : v \in Branches, q \in Query, f \in Faults \cup {None}}

Origins == [branch : Branches, fault : Faults \cup {None}]

\* The query and its requests.
Asked ==
    /\ pc \in {"idle", "fetching", "done", "failed"} /\ branch \in Branches
    /\ pc = "idle" => chunks = <<>> /\ replies = <<>> /\ from = <<>>
    /\ pc # "idle" => Prepared(query) /\ chunks = RequestsFor(query)

\* The replies so far are those to the first requests, in their order.
Fetched ==
    /\ replies \in Seq(Replies) /\ from \in Seq(Origins)
    /\ Len(from) = Len(replies) /\ Len(replies) <= Len(chunks)
    /\ \A i \in 1..Len(replies) :
           replies[i] = Shorten(Reply(from[i].branch, chunks[i]), from[i].fault)

\* A call that is done has all replies and checked what it makes of them.
Provided ==
    pc = "done" =>
        /\ Len(replies) = Len(chunks)
        /\ proof = Merged(replies) /\ LeavesMatch(proof)
        /\ changes => facts = create_facts_db(proof)
        /\ ~changes => infos = StorageInfos(proof)

\* The inductive invariant.
StorageInv == Asked /\ Fetched /\ Provided

\* The requests are cuts of the query.
LEMMA RequestsTyped ==
    ASSUME Asked
    PROVE  chunks \in Seq(Query) /\ (pc # "idle" => Len(chunks) # 0 /\ Cuts(query, chunks) # {})
<1>1. CASE pc = "idle"
  BY <1>1 DEF Asked
<1>2. CASE pc # "idle"
  <2>1. query \in Query /\ chunks = RequestsFor(query)
    BY <1>2 DEF Asked, Prepared
  <2> QED
    BY <2>1, RequestsCut
<1> QED
  BY <1>1, <1>2

\* The invariant holds before the call.
LEMMA StorageInit == Init => StorageInv
<1> SUFFICES ASSUME Init PROVE StorageInv
  OBVIOUS
<1>1. MaxBranch \in Nat
  BY ConstAssumption
<1>2. Asked
  BY <1>1 DEF Init, Asked, Branches
<1>3. Fetched
  BY DEF Init, Fetched
<1>4. Provided
  BY DEF Init, Provided
<1> QED
  BY <1>2, <1>3, <1>4 DEF StorageInv

\* Every step of the call, and every reorganisation, preserves it.
LEMMA StorageNext == StorageInv /\ [Next]_vars => StorageInv'
<1> SUFFICES ASSUME StorageInv, [Next]_vars PROVE StorageInv'
  OBVIOUS
<1> USE DEF StorageInv
<1>1. ASSUME NEW q \in Queries, NEW d \in Diffs, Prepare(q, d) PROVE StorageInv'
  <2>1. Prepared(q)
    BY QueriesArePrepared
  <2>2. /\ pc = "idle" /\ pc' = "fetching" /\ query' = q /\ chunks' = RequestsFor(q)
        /\ branch' = branch /\ replies' = replies /\ from' = from
    BY <1>1 DEF Prepare
  <2>3. replies = <<>> /\ from = <<>>
    BY <2>2 DEF Asked
  <2>4. Asked'
    BY <2>1, <2>2 DEF Asked
  <2>5. Len(RequestsFor(q)) \in Nat
    <3>1. RequestsFor(q) \in Seq(Query)
      BY <2>1, RequestsCut DEF Prepared
    <3> QED
      BY <3>1, LenProperties
  <2>6. Fetched'
    BY <2>2, <2>3, <2>5 DEF Fetched
  <2>7. Provided'
    BY <2>2 DEF Provided
  <2> QED
    BY <2>4, <2>6, <2>7
<1>2. ASSUME NEW fault \in Faults \cup {None}, Fetch(fault) PROVE StorageInv'
  <2> DEFINE n == Len(replies)
             reply == Shorten(Reply(branch, chunks[n + 1]), fault)
             origin == [branch |-> branch, fault |-> fault]
  <2>1. /\ pc = "fetching" /\ n < Len(chunks) /\ pc' = pc /\ branch' = branch
        /\ query' = query /\ chunks' = chunks
        /\ replies' = Append(replies, reply) /\ from' = Append(from, origin)
    BY <1>2 DEF Fetch
  <2>2. Asked'
    BY <2>1 DEF Asked
  <2>3. chunks \in Seq(Query) /\ n \in Nat /\ Len(chunks) \in Nat
    BY RequestsTyped DEF Fetched
  <2>4. chunks[n + 1] \in Query /\ branch \in Branches
    BY <2>1, <2>3 DEF Asked
  <2>5. reply \in Replies /\ origin \in Origins /\ origin.branch = branch /\ origin.fault = fault
    BY <2>4 DEF Replies, Origins
  <2>6. /\ replies \in Seq(Replies) /\ from \in Seq(Origins) /\ Len(from) = n
        /\ \A i \in 1..n : replies[i] = Shorten(Reply(from[i].branch, chunks[i]), from[i].fault)
    BY DEF Fetched
  <2>7. /\ replies' \in Seq(Replies) /\ Len(replies') = n + 1 /\ replies'[n + 1] = reply
        /\ \A i \in 1..n : replies'[i] = replies[i]
    <3> HIDE DEF reply
    <3> QED
      BY <2>1, <2>5, <2>6, AppendProperties
  <2>8. /\ from' \in Seq(Origins) /\ Len(from') = n + 1 /\ from'[n + 1] = origin
        /\ \A i \in 1..n : from'[i] = from[i]
    <3> HIDE DEF origin
    <3> QED
      BY <2>1, <2>5, <2>6, AppendProperties
  <2>9. ASSUME NEW i \in 1..(n + 1)
        PROVE  replies'[i] = Shorten(Reply(from'[i].branch, chunks[i]), from'[i].fault)
    <3>1. CASE i = n + 1
      BY <3>1, <2>5, <2>7, <2>8
    <3>2. CASE i # n + 1
      <4>1. i \in 1..n
        BY <3>2, <2>3
      <4> QED
        BY <4>1, <2>6, <2>7, <2>8
    <3> QED
      BY <3>1, <3>2
  <2>10. Fetched'
    <3>1. n + 1 <= Len(chunks)
      BY <2>1, <2>3
    <3> HIDE DEF n
    <3> QED
      BY <2>1, <2>7, <2>8, <2>9, <3>1 DEF Fetched
  <2>11. Provided'
    BY <2>1 DEF Provided
  <2> QED
    BY <2>2, <2>10, <2>11
<1>3. CASE FetchFails \/ ProvideFails
  <2>1. /\ pc # "idle" /\ pc' = "failed" /\ branch' = branch /\ query' = query /\ chunks' = chunks
        /\ replies' = replies /\ from' = from
    BY <1>3 DEF FetchFails, ProvideFails
  <2>2. Asked'
    BY <2>1 DEF Asked
  <2>3. Fetched'
    BY <2>1 DEF Fetched
  <2>4. Provided'
    BY <2>1 DEF Provided
  <2> QED
    BY <2>2, <2>3, <2>4
<1>4. CASE Provide
  <2>1. /\ pc = "fetching" /\ pc' = "done" /\ branch' = branch /\ query' = query /\ chunks' = chunks
        /\ replies' = replies /\ from' = from /\ changes' = changes
        /\ Len(replies) = Len(chunks) /\ LeavesMatch(Merged(replies))
        /\ proof' = Merged(replies)
        /\ changes => facts' = create_facts_db(Merged(replies))
        /\ ~changes => infos' = StorageInfos(Merged(replies))
    BY <1>4 DEF Provide
  <2>2. Asked'
    BY <2>1 DEF Asked
  <2>3. Fetched'
    BY <2>1 DEF Fetched
  <2>4. Merged(replies)' = Merged(replies)
    BY <2>1 DEF Merged
  <2>5. LeavesMatch(proof)' = LeavesMatch(Merged(replies))
    BY <2>1 DEF LeavesMatch
  <2>6. StorageInfos(proof)' = StorageInfos(Merged(replies))
    BY <2>1 DEF StorageInfos
  <2>7. Provided'
    BY <2>1, <2>4, <2>5, <2>6 DEF Provided
  <2> QED
    BY <2>2, <2>3, <2>7
<1>5. CASE Reorganise \/ UNCHANGED vars
  <2>1. /\ pc' = pc /\ query' = query /\ chunks' = chunks /\ replies' = replies /\ from' = from
        /\ proof' = proof /\ facts' = facts /\ infos' = infos /\ changes' = changes
    BY <1>5 DEF Reorganise, vars
  <2>2. branch' \in Branches
    <3>1. MaxBranch \in Nat /\ branch \in 0..MaxBranch
      BY ConstAssumption DEF Asked, Branches
    <3>2. branch' = branch \/ (branch < MaxBranch /\ branch' = branch + 1)
      BY <1>5 DEF Reorganise, vars
    <3> QED
      BY <3>1, <3>2 DEF Branches
  <2>3. Asked'
    BY <2>1, <2>2 DEF Asked
  <2>4. Fetched'
    BY <2>1 DEF Fetched
  <2>5. /\ Merged(replies)' = Merged(replies) /\ LeavesMatch(proof)' = LeavesMatch(proof)
        /\ StorageInfos(proof)' = StorageInfos(proof)
    BY <2>1 DEF Merged, LeavesMatch, StorageInfos
  <2>6. Provided'
    BY <2>1, <2>5 DEF Provided
  <2> QED
    BY <2>3, <2>4, <2>6
<1> QED
  BY <1>1, <1>2, <1>3, <1>4, <1>5 DEF Next

-----------------------------------------------------------------------------
(* What the invariant implies *)

\* The requests are within the limit of the node, and none is empty unless
\* the query is.
LEMMA InvFit == ASSUME StorageInv PROVE RequestsFit
<1>1. CASE pc = "idle"
  <2>1. chunks = <<>>
    BY <1>1 DEF StorageInv, Asked
  <2> QED
    BY <2>1 DEF RequestsFit
<1>2. CASE pc # "idle"
  <2> DEFINE k == Len(chunks)
             items == flatten_query(query)
             n == Len(items)
  <2>1. chunks \in Seq(Query) /\ Cuts(query, chunks) # {} /\ query \in Query
    BY <1>2, RequestsTyped DEF StorageInv, Asked, Prepared
  <2>2. items \in Seq(Item) /\ n \in Nat /\ k \in Nat /\ DOMAIN chunks = 1..k
    BY <2>1, FlatQuery, LenProperties
  <2>3. PICK u \in Cuts(query, chunks) : TRUE
    BY <2>1
  <2>4. /\ u \in [0..k -> 0..n]
        /\ \A i \in 1..k : /\ u[i - 1] <= u[i] /\ u[i] - u[i - 1] <= MaxKeys
                           /\ u[i - 1] < u[i] \/ n = 0
                           /\ flatten_query(chunks[i]) = SubSeq(items, u[i - 1] + 1, u[i])
    BY DEF Cuts
  <2> HIDE DEF k, items, n
  <2>5. ASSUME NEW i \in 1..k
        PROVE  Len(flatten_query(chunks[i])) = u[i] - u[i - 1] /\ u[i] \in 0..n /\ u[i - 1] \in 0..n
    <3>1. i \in 0..k /\ i - 1 \in 0..k
      BY <2>2
    <3>2. u[i] \in 0..n /\ u[i - 1] \in 0..n /\ u[i - 1] <= u[i]
      BY <2>4, <3>1
    <3> DEFINE lo == u[i - 1] + 1
               hi == u[i]
    <3>3. lo \in Int /\ hi \in Int /\ \A j \in lo..hi : items[j] \in Item
      BY <3>2, <2>2 DEF n
    <3>4. Len(SubSeq(items, lo, hi)) = IF lo <= hi THEN hi - lo + 1 ELSE 0
      <4> HIDE DEF lo, hi
      <4> QED
        BY <3>3, SubSeqProperties
    <3>5. (IF lo <= hi THEN hi - lo + 1 ELSE 0) = u[i] - u[i - 1]
      BY <3>2, <2>2
    <3> QED
      BY <2>4, <3>2, <3>4, <3>5
  <2>6. ASSUME NEW i \in 1..k
        PROVE  /\ Len(flatten_query(chunks[i])) <= MaxKeys
               /\ Len(flatten_query(chunks[i])) > 0 \/ n = 0
    <3>1. u[i] - u[i - 1] <= MaxKeys /\ (u[i - 1] < u[i] \/ n = 0)
      BY <2>4
    <3>2. u[i - 1] < u[i] => u[i] - u[i - 1] > 0
      BY <2>5, <2>2
    <3> QED
      BY <3>1, <3>2, <2>5
  <2> QED
    BY <2>2, <2>6 DEF RequestsFit, Size, n, items
<1> QED
  BY <1>1, <1>2

\* The requests ask for what the query asks for, once and in its order.
LEMMA InvMakeUp == ASSUME StorageInv PROVE ChunksMakeUpQuery
<1> SUFFICES ASSUME pc # "idle"
             PROVE  FlattenSeq([i \in DOMAIN chunks |-> flatten_query(chunks[i])]) = flatten_query(query)
  BY DEF ChunksMakeUpQuery
<1>1. chunks \in Seq(Query) /\ Cuts(query, chunks) # {} /\ query \in Query
  BY RequestsTyped DEF StorageInv, Asked, Prepared
<1>2. PICK u \in Cuts(query, chunks) : TRUE
  BY <1>1
<1>3. FlattenSeq([i \in 1..Len(chunks) |-> flatten_query(chunks[i])]) = flatten_query(query)
  BY <1>1, <1>2, RequestsAsk
<1>4. DOMAIN chunks = 1..Len(chunks)
  BY <1>1, LenProperties
<1> QED
  BY <1>3, <1>4

\* A call that is done: where its replies come from, and how they were put
\* together.
LEMMA DoneFacts ==
    ASSUME StorageInv, pc = "done"
    PROVE  /\ Prepared(query) /\ query \in Query /\ chunks \in Seq(Query)
           /\ Len(chunks) # 0 /\ Cuts(query, chunks) # {}
           /\ Answered(chunks, from, replies, Branches)
           /\ Len(proof.leaves) = Len(query.contract_addresses)
           /\ \/ chunks = <<query>> /\ proof = replies[1]
              \/ proof = merge_storage_proofs(replies, chunks, query)
<1>1. /\ Prepared(query) /\ query \in Query /\ chunks \in Seq(Query)
      /\ Len(chunks) # 0 /\ Cuts(query, chunks) # {} /\ chunks = RequestsFor(query)
  BY RequestsTyped DEF StorageInv, Asked, Prepared
<1>2. Answered(chunks, from, replies, Branches)
  <2>1. /\ replies \in Seq(Replies) /\ from \in Seq(Origins) /\ Len(replies) = Len(chunks)
        /\ Len(from) = Len(chunks)
        /\ \A i \in 1..Len(chunks) :
               replies[i] = Shorten(Reply(from[i].branch, chunks[i]), from[i].fault)
    BY DEF StorageInv, Fetched, Provided
  <2>2. \A i \in 1..Len(chunks) : from[i] \in Origins
    BY <2>1
  <2>3. \A i \in 1..Len(chunks) : from[i].branch \in Branches
    BY <2>2 DEF Origins
  <2>4. DOMAIN replies = 1..Len(chunks)
    BY <2>1, LenProperties
  <2> QED
    BY <2>1, <2>3, <2>4 DEF Answered
<1>3. Len(proof.leaves) = Len(query.contract_addresses) /\ proof = Merged(replies)
  BY DEF StorageInv, Provided, LeavesMatch
<1>4. \/ chunks = <<query>> /\ proof = replies[1]
      \/ proof = merge_storage_proofs(replies, chunks, query)
  BY <1>1, <1>3 DEF Merged, RequestsFor
<1> QED
  BY <1>1, <1>2, <1>3, <1>4

\* The leaves are those of the addresses, each from some branch.
LEMMA DoneLeaves ==
    ASSUME StorageInv, pc = "done"
    PROVE  /\ proof.leaves \in Seq(Leaves)
           /\ \A j \in 1..Len(proof.leaves) :
                  \E v \in Branches : proof.leaves[j] = Leaf(v, query.contract_addresses[j])
<1>1. /\ query \in Query /\ chunks \in Seq(Query) /\ Cuts(query, chunks) # {}
      /\ Answered(chunks, from, replies, Branches)
      /\ Len(proof.leaves) = Len(query.contract_addresses)
      /\ \/ chunks = <<query>> /\ proof = replies[1]
         \/ proof = merge_storage_proofs(replies, chunks, query)
  BY DoneFacts
<1>2. CASE chunks = <<query>> /\ proof = replies[1]
  <2> DEFINE b == from[1].branch
             f == from[1].fault
  <2>1. Len(chunks) = 1 /\ chunks[1] = query /\ 1 \in 1..1
    BY <1>2
  <2>2. b \in Branches /\ proof = Shorten(Reply(b, query), f)
    BY <2>1, <1>1, <1>2 DEF Answered
  <2> HIDE DEF b, f
  <2>3. /\ Shorten(Reply(b, query), f).leaves \in Seq(Leaves)
        /\ \A i \in 1..Len(Shorten(Reply(b, query), f).leaves) :
               Shorten(Reply(b, query), f).leaves[i] = Leaf(b, query.contract_addresses[i])
    BY <2>2, <1>1, LeavesOfReply
  <2> QED
    BY <2>2, <2>3
<1>3. CASE proof = merge_storage_proofs(replies, chunks, query)
  <2>1. proof.leaves = LeavesOf(replies)
    BY <1>3 DEF merge_storage_proofs, LeavesOf
  <2>2. PICK u \in Cuts(query, chunks) : TRUE
    BY <1>1
  <2> DEFINE V == Branches
  <2>3. V \in SUBSET Branches /\ Answered(chunks, from, replies, V)
    BY <1>1
  <2>4. Len(LeavesOf(replies)) = Len(query.contract_addresses)
    BY <1>1, <2>1
  <2>0. query \in Query /\ chunks \in Seq(Query)
    BY <1>1
  <2> HIDE DEF V
  <2>5. LeavesOf(replies) \in Seq(Leaves)
    BY ONLY <2>0, <2>2, <2>3, <2>4, MergedLeaves
  <2>6. \A j \in 1..Len(LeavesOf(replies)) :
            \E v \in V : LeavesOf(replies)[j] = Leaf(v, query.contract_addresses[j])
    BY ONLY <2>0, <2>2, <2>3, <2>4, MergedLeaves
  <2> QED
    BY <2>1, <2>5, <2>6 DEF V
<1> QED
  BY <1>1, <1>2, <1>3

\* No leaf goes to another contract.
LEMMA InvLeaves == ASSUME StorageInv PROVE LeavesBelongToAddresses
<1> SUFFICES ASSUME pc = "done", NEW i \in DOMAIN query.contract_addresses
             PROVE  i \in DOMAIN proof.leaves /\ proof.leaves[i].of = query.contract_addresses[i]
  BY DEF LeavesBelongToAddresses
<1> DEFINE addrs == query.contract_addresses
           s == proof.leaves
<1>1. addrs \in Seq(Contracts) /\ Len(s) = Len(addrs)
  BY DoneFacts, FlatQuery
<1>2. s \in Seq(Leaves) /\ \A j \in 1..Len(s) : \E v \in Branches : s[j] = Leaf(v, addrs[j])
  BY DoneLeaves
<1> HIDE DEF s, addrs
<1>3. i \in 1..Len(s) /\ DOMAIN s = 1..Len(s)
  BY <1>1, <1>2, LenProperties DEF addrs
<1>4. PICK v \in Branches : s[i] = Leaf(v, addrs[i])
  BY <1>2, <1>3
<1>5. s[i].of = addrs[i]
  BY <1>4 DEF Leaf
<1> QED
  BY <1>3, <1>5 DEF s, addrs

\* Undisturbed, the proof is the reply of the first branch to the query.
LEMMA DoneProof ==
    ASSUME StorageInv, pc = "done", Undisturbed
    PROVE  proof = Reply(from[1].branch, query) /\ from[1].branch \in Branches
<1> DEFINE v == from[1].branch
           k == Len(chunks)
<1>1. /\ Prepared(query) /\ query \in Query /\ chunks \in Seq(Query)
      /\ Len(chunks) # 0 /\ Cuts(query, chunks) # {}
      /\ Answered(chunks, from, replies, Branches)
      /\ Len(proof.leaves) = Len(query.contract_addresses)
      /\ \/ chunks = <<query>> /\ proof = replies[1]
         \/ proof = merge_storage_proofs(replies, chunks, query)
  BY DoneFacts
<1>2. from \in Seq(Origins) /\ Len(from) = k
  BY DEF StorageInv, Fetched, Provided
<1>3. k \in Nat \ {0} /\ DOMAIN from = 1..k /\ DOMAIN replies = 1..k
  BY <1>1, <1>2, LenProperties DEF Answered
<1>4. v \in Branches
  BY <1>1, <1>3 DEF Answered
<1>5. \A i \in 1..k : replies[i] = Reply(v, chunks[i])
  <2>1. \A i \in 1..k : from[i].branch = v /\ from[i].fault = None
    BY <1>3 DEF Undisturbed
  <2>2. \A i \in 1..k : replies[i] = Shorten(Reply(v, chunks[i]), None)
    BY <2>1, <1>1 DEF Answered
  <2> HIDE DEF v, k
  <2> QED
    BY <2>2, NoFault
<1> HIDE DEF v
<1>6. CASE chunks = <<query>> /\ proof = replies[1]
  <2>1. chunks[1] = query /\ 1 \in 1..k
    BY <1>3, <1>6
  <2> QED
    BY <2>1, <1>4, <1>5, <1>6 DEF v
<1>7. CASE proof = merge_storage_proofs(replies, chunks, query)
  <2>1. replies = Replied(v, chunks)
    <3>1. replies = [i \in 1..k |-> replies[i]]
      <4>1. replies \in Seq(Replies) /\ Len(replies) = k
        BY DEF StorageInv, Fetched, Provided
      <4> HIDE DEF k
      <4> QED
        BY <4>1
    <3> QED
      BY <3>1, <1>5 DEF Replied
  <2>2. PICK u \in Cuts(query, chunks) : TRUE
    BY <1>1
  <2> DEFINE m == merge_storage_proofs(Replied(v, chunks), chunks, query)
  <2>3. proof = m /\ Len(m.leaves) = Len(query.contract_addresses)
    BY <1>1, <1>7, <2>1
  <2>4. m = Reply(v, query)
    BY <1>1, <1>4, <2>2, <2>3, MergedReply
  <2> QED
    BY <2>3, <2>4, <1>4 DEF v
<1> QED
  BY <1>1, <1>6, <1>7

\* The merged proof is the whole one, and each contract gets its own.
LEMMA InvWhole == ASSUME StorageInv PROVE MergedIsWhole
<1> SUFFICES ASSUME pc = "done", Undisturbed
             PROVE  /\ proof = Reply(from[1].branch, query)
                    /\ ~changes => \A i \in DOMAIN query.contract_storage_keys :
                           LET csk == query.contract_storage_keys[i]
                               t == TrieOf(from[1].branch, csk.contract_address)
                           IN  infos[csk.contract_address] =
                                   [root |-> t, nodes |-> Paths(t, ToSet(csk.storage_keys))]
  BY DEF MergedIsWhole
<1> DEFINE v == from[1].branch
           addrs == query.contract_addresses
           csks == query.contract_storage_keys
<1>1. proof = Reply(v, query)
  BY DoneProof
<1>2. /\ addrs \in Seq(Contracts) /\ csks \in Seq(ContractKeys) /\ Len(csks) = Len(addrs)
      /\ \A i \in 1..Len(addrs) : csks[i].contract_address = addrs[i]
      /\ \A i, j \in 1..Len(addrs) : i # j => addrs[i] # addrs[j]
  BY DoneFacts, FlatQuery DEF Prepared
<1>3. ASSUME ~changes, NEW i \in DOMAIN csks
      PROVE  LET csk == csks[i]
                 t == TrieOf(v, csk.contract_address)
             IN  infos[csk.contract_address] =
                     [root |-> t, nodes |-> Paths(t, ToSet(csk.storage_keys))]
  <2> DEFINE csk == csks[i]
             a == csk.contract_address
             t == TrieOf(v, a)
             j == CHOOSE l \in DOMAIN addrs : addrs[l] = a
  <2>1. infos = StorageInfos(proof)
    BY <1>3 DEF StorageInv, Provided
  <2>2. DOMAIN addrs = 1..Len(addrs) /\ DOMAIN csks = 1..Len(addrs)
    <3> HIDE DEF addrs, csks
    <3> QED
      BY <1>2, LenProperties
  <2>3. i \in 1..Len(addrs) /\ addrs[i] = a
    BY <2>2, <1>2, <1>3
  <2>4. j = i
    <3> HIDE DEF a, addrs
    <3>1. i \in DOMAIN addrs /\ addrs[i] = a
      BY <2>2, <2>3
    <3>2. j \in DOMAIN addrs /\ addrs[j] = a
      BY <3>1
    <3> HIDE DEF j
    <3> QED
      BY <2>2, <2>3, <3>2, <1>2
  <2>5. a \in ToSet(addrs)
    BY <2>2, <2>3 DEF ToSet
  <2>6. infos[a] = [root |-> proof.leaves[j].storage_root, nodes |-> proof.storage[j]]
    BY <2>1, <2>5 DEF StorageInfos
  <2>7. proof.leaves[i] = Leaf(v, a)
    BY <1>1, <2>2, <2>3 DEF Reply
  <2>8. proof.storage[i] = Paths(t, ToSet(csk.storage_keys))
    BY <1>1, <1>3 DEF Reply
  <2>9. Leaf(v, a).storage_root = t
    BY DEF Leaf
  <2> HIDE DEF a, t, j
  <2>10. infos[a] = [root |-> t, nodes |-> Paths(t, ToSet(csk.storage_keys))]
    BY <2>4, <2>6, <2>7, <2>8, <2>9
  <2> QED
    BY <2>10 DEF a, t
<1> QED
  BY <1>1, <1>3

-----------------------------------------------------------------------------
(* The theorems *)

\* The invariant of one call: each reply answers the request at its place,
\* and a call that is done merged all replies and checked the leaves.
THEOREM StorageInvariant == Spec => []StorageInv
<1> QED
  BY StorageInit, StorageNext, PTL DEF Spec

\* fetch_proofs never sends a request above MAX_KEYS_PER_REQUEST, nor an
\* empty one unless the query is empty, whatever the sizes of the query's
\* three parts.
THEOREM AllRequestsFit == Spec => []RequestsFit
<1>1. StorageInv => RequestsFit
  BY InvFit
<1> QED
  BY <1>1, StorageInvariant, PTL

\* split_query loses, repeats and reorders nothing.
THEOREM RequestsMakeUpQuery == Spec => []ChunksMakeUpQuery
<1>1. StorageInv => ChunksMakeUpQuery
  BY InvMakeUp
<1> QED
  BY <1>1, StorageInvariant, PTL

\* Of any replies, short ones and ones of different branches included, that
\* pass the check on the number of leaves, each leaf is given to the contract
\* it belongs to.
THEOREM LeavesAreNotShifted == Spec => []LeavesBelongToAddresses
<1>1. StorageInv => LeavesBelongToAddresses
  BY InvLeaves
<1> QED
  BY <1>1, StorageInvariant, PTL

\* merge_storage_proofs undoes split_query: complete replies of one branch
\* make up the reply to the whole query, and build_storage_commitment_infos
\* gives each contract the root and the nodes of its own storage trie.
THEOREM ProofIsWhole == Spec => []MergedIsWhole
<1>1. StorageInv => MergedIsWhole
  BY InvWhole
<1> QED
  BY <1>1, StorageInvariant, PTL

\* The committer meets a real node wherever the proof has it, and an entry
\* for every child of every node.
THEOREM FactsSound == Spec => []FactsAreSound
<1>1. StorageInv => FactsAreSound
  BY FactsOfAProof DEF StorageInv, Provided, FactsAreSound
<1> QED
  BY <1>1, StorageInvariant, PTL
=============================================================================

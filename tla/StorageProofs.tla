--------------------------- MODULE StorageProofs ---------------------------
(***************************************************************************)
(* One call of get_storage_proofs (running/storage_proofs.rs and           *)
(* running/committer_utils.rs of starknet_transaction_prover): the query   *)
(* built from the initial reads, its chunks, the proofs the node returns   *)
(* for them one after the other, their merge, the checks, and the facts    *)
(* database given to the committer.  Node and committer are external.      *)
(***************************************************************************)
EXTENDS Naturals, FiniteSets, SequencesExt

CONSTANTS
    Height,         \* height of the tries (251 in the code)
    Classes,        \* class hashes
    Contracts,      \* contract addresses
    Keys,           \* storage keys
    StorageTrie,    \* StorageTrie[<<v, a>>]: storage of a on branch v of the chain
    MaxKeys,        \* MAX_KEYS_PER_REQUEST (100 in the code)
    Faults,         \* ways in which the node's replies may be short
    MaxBranch,      \* bound on reorganisations of the block
    None            \* Option::None

Branches == 0..MaxBranch

ASSUME ConstAssumption ==
    /\ Height \in Nat
    /\ \A S \in {Classes, Contracts, Keys} : IsFiniteSet(S) /\ S \subseteq 0..(2^Height - 1)
    /\ MaxKeys \in Nat \ {0} /\ MaxBranch \in Nat
    /\ Faults \subseteq {"no leaf", "no storage"} /\ None \notin {"no leaf", "no storage"}
    /\ StorageTrie \in [Branches \X Contracts -> Nat]

VARIABLES
    changes,  \* config.include_state_changes
    branch,   \* the branch the block number refers to at the node
    pc,       \* where the call stands
    diff,     \* the state diff of the execution
    query,    \* the query
    chunks,   \* the requests it is sent as
    replies,  \* the proofs received so far
    from,     \* from[i]: the branch and the fault behind replies[i] (history)
    proof,    \* the proof the replies make up
    facts,    \* the facts database: inner nodes by hash
    infos     \* storage_tries_commitment_infos

vars == <<changes, branch, pc, diff, query, chunks, replies, from, proof, facts, infos>>

-----------------------------------------------------------------------------
(* Tries and the node (external) *)

\* Contracts with equal storage have the same storage trie.
ContractsTrie(v) == <<"contracts", v>>
ClassesTrie(v) == <<"classes", v>>
TrieOf(v, a) == <<"storage", StorageTrie[<<v, a>>]>>

\* An inner node is known by its hash: the trie it is in and its position.
PathTo(t, k) ==
    {[trie |-> t, depth |-> d, index |-> k \div 2^(Height - d)] : d \in 0..(Height - 1)}

\* Every inner node has two children here; edge nodes, which have one at the
\* end of a longer path, are abstracted to these.
Children(n) == {[n EXCEPT !.depth = @ + 1, !.index = 2 * @ + side] : side \in {0, 1}}

Paths(t, ks) == UNION {PathTo(t, k) : k \in ks}

Leaf(v, a) == [of |-> a, storage_root |-> TrieOf(v, a)]

EmptyQuery == [class_hashes |-> <<>>, contract_addresses |-> <<>>,
               contract_storage_keys |-> <<>>]

\* starknet_getStorageProof; leaves and storage proofs in query order.
Reply(v, q) ==
    [global_roots |-> v,
     classes_proof |-> Paths(ClassesTrie(v), ToSet(q.class_hashes)),
     nodes |-> Paths(ContractsTrie(v), ToSet(q.contract_addresses)),
     leaves |-> [i \in DOMAIN q.contract_addresses |-> Leaf(v, q.contract_addresses[i])],
     storage |-> [i \in DOMAIN q.contract_storage_keys |->
                    LET csk == q.contract_storage_keys[i]
                    IN  Paths(TrieOf(v, csk.contract_address), ToSet(csk.storage_keys))]]

\* A reply that lacks its last leaf or its last storage proof.
Shorten(p, fault) ==
    CASE fault = "no leaf" /\ p.leaves # <<>> -> [p EXCEPT !.leaves = Front(@)]
      [] fault = "no storage" /\ p.storage # <<>> -> [p EXCEPT !.storage = Front(@)]
      [] OTHER -> p

-----------------------------------------------------------------------------
(* Queries and chunks *)

KeyCount(csks) ==
    LET count[i \in 0..Len(csks)] ==
            IF i = 0 THEN 0 ELSE count[i - 1] + Len(csks[i].storage_keys)
    IN  count[Len(csks)]

\* Mutant of count_total_keys: contract addresses are not counted.
count_total_keysNoContracts(q) ==
    Len(q.class_hashes) + KeyCount(q.contract_storage_keys)

count_total_keys(q) ==
    Len(q.class_hashes) + Len(q.contract_addresses) + KeyCount(q.contract_storage_keys)

QueryItem(kind, of, key) == [kind |-> kind, of |-> of, key |-> key]

ClassItems(hs) == [i \in DOMAIN hs |-> QueryItem("class", hs[i], None)]

ContractItems(addrs) == [i \in DOMAIN addrs |-> QueryItem("contract", addrs[i], None)]

KeyItems(csk) ==
    [i \in DOMAIN csk.storage_keys |->
        QueryItem("key", csk.contract_address, csk.storage_keys[i])]

flatten_query(q) ==
    ClassItems(q.class_hashes) \o ContractItems(q.contract_addresses)
    \o FlattenSeq([i \in DOMAIN q.contract_storage_keys |->
                     KeyItems(q.contract_storage_keys[i])])

\* One turn of the loop of collect_query: a key goes to the last entry if
\* that is its contract's, else to a new one.
Collect(q, item) ==
    LET csks == q.contract_storage_keys
        joins == csks # <<>> /\ Last(csks).contract_address = item.of
    IN  CASE item.kind = "class" -> [q EXCEPT !.class_hashes = Append(@, item.of)]
          [] item.kind = "contract" -> [q EXCEPT !.contract_addresses = Append(@, item.of)]
          [] item.kind = "key" /\ joins ->
                 [q EXCEPT !.contract_storage_keys[Len(csks)].storage_keys =
                               Append(@, item.key)]
          [] item.kind = "key" /\ ~joins ->
                 [q EXCEPT !.contract_storage_keys =
                     Append(@, [contract_address |-> item.of,
                                storage_keys |-> <<item.key>>])]

collect_query(items) ==
    LET query_of[i \in 0..Len(items)] ==
            IF i = 0 THEN EmptyQuery ELSE Collect(query_of[i - 1], items[i])
    IN  query_of[Len(items)]

\* Mutant of split_query: the last, shorter chunk is lost (chunks_exact).
split_queryExact(q, max_keys) ==
    LET items == flatten_query(q)
    IN  [i \in 1..(Len(items) \div max_keys) |->
           collect_query(SubSeq(items, (i - 1) * max_keys + 1, i * max_keys))]

\* flatten_query(query).chunks(max_keys).map(collect_query)
split_query(q, max_keys) ==
    LET items == flatten_query(q)
        upto(i) == IF i * max_keys < Len(items) THEN i * max_keys ELSE Len(items)
    IN  [i \in 1..((Len(items) + max_keys - 1) \div max_keys) |->
           collect_query(SubSeq(items, (i - 1) * max_keys + 1, upto(i)))]

\* fetch_proofs: one request if it fits.
RequestsFor(q) ==
    IF count_total_keys(q) <= MaxKeys THEN <<q>> ELSE split_query(q, MaxKeys)

\* prepare_query: sorted addresses, the keys of each in no fixed order.
Queries ==
    {[class_hashes |-> cs, contract_addresses |-> addrs,
      contract_storage_keys |->
          [i \in DOMAIN addrs |-> [contract_address |-> addrs[i], storage_keys |-> ks[addrs[i]]]]] :
        cs \in UNION {SetToSeqs(S) : S \in SUBSET Classes},
        addrs \in {s \in UNION {SetToSeqs(S) : S \in SUBSET Contracts} : IsSorted(s, <)},
        ks \in [Contracts -> UNION {SetToSeqs(S) : S \in SUBSET Keys}]}

-----------------------------------------------------------------------------
(* Merging *)

\* Mutant of StorageFor: proofs are matched by position in the chunk.
StorageForByPosition(proofs, qs, i, a) ==
    UNION {proofs[c].storage[i] : c \in {d \in DOMAIN proofs : i <= Len(proofs[d].storage)}}

\* All nodes the chunks returned for the storage of address a.
StorageFor(proofs, qs, i, a) ==
    UNION {UNION {proofs[c].storage[j] :
                    j \in {k \in DOMAIN proofs[c].storage :
                             qs[c].contract_storage_keys[k].contract_address = a}} :
             c \in DOMAIN proofs}

merge_storage_proofs(proofs, qs, q) ==
    [global_roots |-> proofs[1].global_roots,
     classes_proof |-> UNION {proofs[c].classes_proof : c \in DOMAIN proofs},
     nodes |-> UNION {proofs[c].nodes : c \in DOMAIN proofs},
     leaves |-> FlattenSeq([c \in DOMAIN proofs |-> proofs[c].leaves]),
     storage |-> [i \in DOMAIN q.contract_storage_keys |->
                    StorageFor(proofs, qs, i, q.contract_storage_keys[i].contract_address)]]

\* fetch_proofs: an unsplit reply is passed on as it is.
Merged(proofs) ==
    IF count_total_keys(query) <= MaxKeys THEN proofs[1]
    ELSE merge_storage_proofs(proofs, chunks, query)

-----------------------------------------------------------------------------
(* The facts database *)

\* The three kinds of proofs, as batches of nodes.
Batches(p) == {p.nodes, p.classes_proof} \cup ToSet(p.storage)

\* insert_inner_nodes, batch by batch
InnerNodes(p) == UNION Batches(p)

\* Children a batch of nodes refers to without having their preimage.
Orphans(nodes) == (UNION {Children(n) : n \in nodes}) \ nodes

\* Mutant of WithDummies: insert instead of entry().or_insert_with().
WithDummiesInsert(db, orphans) ==
    [h \in DOMAIN db \cup orphans |-> IF h \in orphans THEN "dummy" ELSE db[h]]

\* add_dummy_nodes_for_orphan_hashes: a hash that has an entry keeps it, so
\* the order of the orphans and of their batches does not matter.
WithDummies(db, orphans) ==
    [h \in DOMAIN db \cup orphans |-> IF h \in DOMAIN db THEN db[h] ELSE "dummy"]

\* create_facts_db_from_storage_proof, inner nodes; leaves have other keys.
\* The nodes of all batches are in before the first dummy.
create_facts_db(p) ==
    WithDummies([h \in InnerNodes(p) |-> "node"], UNION {Orphans(b) : b \in Batches(p)})

-----------------------------------------------------------------------------
(* The call *)

NoDiff == [deletes |-> FALSE, deploys |-> FALSE, declares |-> FALSE]

Diffs == [deletes : BOOLEAN, deploys : BOOLEAN, declares : BOOLEAN]

Init ==
    /\ changes \in BOOLEAN
    /\ branch = 0
    /\ pc = "idle"
    /\ diff = NoDiff
    /\ query = EmptyQuery
    /\ chunks = <<>> /\ replies = <<>> /\ from = <<>>
    /\ proof = None /\ facts = None /\ infos = None

Prepare(q, d) ==
    /\ pc = "idle"
    /\ pc' = "fetching"
    /\ diff' = d
    /\ query' = q
    /\ chunks' = RequestsFor(q)
    /\ UNCHANGED <<changes, branch, replies, from, proof, facts, infos>>

\* fetch_single_proof for the next chunk, by block number
Fetch(fault) ==
    LET reply == Shorten(Reply(branch, chunks[Len(replies) + 1]), fault)
    IN  /\ pc = "fetching"
        /\ Len(replies) < Len(chunks)
        /\ replies' = Append(replies, reply)
        /\ from' = Append(from, [branch |-> branch, fault |-> fault])
        /\ UNCHANGED <<changes, branch, pc, diff, query, chunks, proof, facts, infos>>

\* A chunk that fails fails the call.
FetchFails ==
    /\ pc = "fetching"
    /\ Len(replies) < Len(chunks)
    /\ pc' = "failed"
    /\ UNCHANGED <<changes, branch, diff, query, chunks, replies, from, proof, facts, infos>>

\* Mutant of LeavesMatch: the number of leaves is not checked.
LeavesMatchUnchecked(p) == TRUE

LeavesMatch(p) == Len(p.leaves) = Len(query.contract_addresses)

validate_virtual_os_state_diff(d) == ~d.deletes /\ ~d.deploys /\ ~d.declares

\* build_storage_commitment_infos, leaves looked up by address
StorageInfos(p) ==
    [a \in ToSet(query.contract_addresses) |->
        LET i == CHOOSE j \in DOMAIN query.contract_addresses :
                     query.contract_addresses[j] = a
        IN  [root |-> p.leaves[i].storage_root, nodes |-> p.storage[i]]]

\* Without state changes: as many storage proofs as contracts, and each of
\* their addresses is in addr_to_leaf.
Complete(p) ==
    IF changes THEN validate_virtual_os_state_diff(diff)
    ELSE /\ Len(p.storage) = Len(query.contract_storage_keys)
         /\ DOMAIN query.contract_addresses \subseteq DOMAIN p.leaves

\* The rest of get_storage_proofs, which talks to nobody.
Provide ==
    LET p == Merged(replies)
    IN  /\ pc = "fetching" /\ Len(replies) = Len(chunks)
        /\ LeavesMatch(p) /\ Complete(p)
        /\ pc' = "done"
        /\ proof' = p
        /\ facts' = IF changes THEN create_facts_db(p) ELSE None
        /\ infos' = IF changes THEN None ELSE StorageInfos(p)
        /\ UNCHANGED <<changes, branch, diff, query, chunks, replies, from>>

\* A check fails, or the committer misses a node.
ProvideFails ==
    /\ pc = "fetching" /\ Len(replies) = Len(chunks)
    /\ ~(LeavesMatch(Merged(replies)) /\ Complete(Merged(replies))) \/ changes
    /\ pc' = "failed"
    /\ UNCHANGED <<changes, branch, diff, query, chunks, replies, from, proof, facts, infos>>

\* The chain is reorganised and the number names another block.
Reorganise ==
    /\ branch < MaxBranch
    /\ branch' = branch + 1
    /\ UNCHANGED <<changes, pc, diff, query, chunks, replies, from, proof, facts, infos>>

Next ==
    \/ \E q \in Queries, d \in Diffs : Prepare(q, d)
    \/ \E fault \in Faults \cup {None} : Fetch(fault)
    \/ FetchFails \/ Provide \/ ProvideFails
    \/ Reorganise

Spec == Init /\ [][Next]_vars

-----------------------------------------------------------------------------
(* Properties *)

\* The size of a request as the node counts it.
Size(q) == Len(flatten_query(q))

\* Every request fits the node's limit, and none is empty unless the whole
\* query is: the boundary cases of count_total_keys and chunks().
RequestsFit ==
    \A i \in DOMAIN chunks :
        Size(chunks[i]) <= MaxKeys /\ (Size(chunks[i]) > 0 \/ Size(query) = 0)

\* The chunks ask for everything the query asks for, once and in its order.
ChunksMakeUpQuery ==
    pc # "idle" =>
        FlattenSeq([i \in DOMAIN chunks |-> flatten_query(chunks[i])]) = flatten_query(query)

\* All replies came from one branch of the chain, none of them short.
Undisturbed ==
    \A i \in DOMAIN from : from[i].branch = from[1].branch /\ from[i].fault = None

\* However the chunks cut through the query (a contract's keys over several
\* chunks, its address in another), the merged proof is the one an unlimited
\* request would have returned, and the OS gets root and nodes of each storage
\* trie for the contract they belong to.
MergedIsWhole ==
    pc = "done" /\ Undisturbed =>
        /\ proof = Reply(from[1].branch, query)
        /\ ~changes => \A i \in DOMAIN query.contract_storage_keys :
               LET csk == query.contract_storage_keys[i]
                   t == TrieOf(from[1].branch, csk.contract_address)
               IN  infos[csk.contract_address] =
                       [root |-> t, nodes |-> Paths(t, ToSet(csk.storage_keys))]

\* Nonces, class hashes and storage roots go to the contracts they belong to:
\* a chunk with a leaf too few never shifts the leaves of the chunks after it.
LeavesBelongToAddresses ==
    pc = "done" =>
        \A i \in DOMAIN query.contract_addresses :
            i \in DOMAIN proof.leaves /\ proof.leaves[i].of = query.contract_addresses[i]

\* The committer meets the real node wherever some batch has it, also where
\* another batch (a contract with equal storage) knows only its hash, and
\* finds an entry for every child of every node.
FactsAreSound ==
    pc = "done" /\ changes =>
        \A n \in InnerNodes(proof) :
            facts[n] = "node" /\ Children(n) \subseteq DOMAIN facts
=============================================================================

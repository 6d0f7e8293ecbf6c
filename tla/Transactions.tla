---------------------------- MODULE Transactions ----------------------------
(***************************************************************************)
(* Building, hashing and signing SNIP-36 transactions (snip36-pure and     *)
(* snip36-core: signing.rs and types.rs, the same code twice).  A felt is  *)
(* a number, a model value, or a record that says how it was made; a hash  *)
(* is its own preimage, so that no two preimages collide.                  *)
(***************************************************************************)
EXTENDS Naturals, Sequences

CONSTANTS
    None,        \* Option::None, null
    AmountBits,  \* width of max_amount (64 in the code)
    PriceBits    \* width of max_price_per_unit (128 in the code)

\* The defaults below fit into their widths.
ASSUME WidthAssumption ==
    /\ AmountBits \in Nat /\ 2^AmountBits \in Nat /\ 2^AmountBits > 2
    /\ PriceBits \in Nat /\ 2^PriceBits \in Nat /\ 2^PriceBits > 1

Gases == {"l1_gas", "l2_gas", "l1_data_gas"}

Bound(amount, price) == [max_amount |-> amount, max_price_per_unit |-> price]

\* ResourceBounds: three bounds, each amount and price within its width.
ResourceBounds ==
    LET B == [max_amount : 0 .. 2^AmountBits - 1, max_price_per_unit : 0 .. 2^PriceBits - 1]
    IN  [l1_gas : B, l2_gas : B, l1_data_gas : B]

\* ResourceBounds::default() and zero_fee(), with amounts and prices scaled
\* down to the widths.
default_bounds ==
    [l1_gas |-> Bound(1, 1), l2_gas |-> Bound(2, 1), l1_data_gas |-> Bound(1, 1)]

zero_fee ==
    [l1_gas |-> Bound(0, 0), l2_gas |-> Bound(2, 0), l1_data_gas |-> Bound(1, 0)]

-----------------------------------------------------------------------------
(* The hash *)

poseidon_hash_many(felts) == [poseidon |-> felts]

\* A text is a name or a number written in hexadecimal; chain_id_felt takes
\* its bytes, whatever it says.
Name(n) == [form |-> "name", of |-> n]

chain_id_felt(text) == [ascii |-> text]

\* "L1_GAS", "L2_GAS" and "L1_DATA" as numbers: none is cut off.
resource_name_felt == [l1_gas |-> 1, l2_gas |-> 2, l1_data_gas |-> 3]

\* Mutant of concat_resource: the price gets the room of an amount.
concat_resourceNarrow(bound, gas) ==
    (resource_name_felt[gas] * 2^AmountBits + bound.max_amount) * 2^AmountBits
      + bound.max_price_per_unit

\* [ name | max_amount | max_price ] in one felt.
concat_resource(bound, gas) ==
    (resource_name_felt[gas] * 2^AmountBits + bound.max_amount) * 2^PriceBits
      + bound.max_price_per_unit

compute_tip_resource_bounds_hash(tip, bounds) ==
    poseidon_hash_many(<<tip, concat_resource(bounds.l1_gas, "l1_gas"),
                         concat_resource(bounds.l2_gas, "l2_gas"),
                         concat_resource(bounds.l1_data_gas, "l1_data_gas")>>)

\* The facts of a proof are hashed only when there are some; the proof
\* itself never is.  Paymaster and deployment data are empty, both
\* availability modes L1.
compute_invoke_v3_tx_hash(sender, calldata, chain, nonce, tip, bounds, proof_facts) ==
    poseidon_hash_many(
        <<"invoke", 3, sender, compute_tip_resource_bounds_hash(tip, bounds),
          poseidon_hash_many(<<>>), chain, nonce, 0, poseidon_hash_many(<<>>),
          poseidon_hash_many(calldata)>>
        \o IF proof_facts = <<>> THEN <<>> ELSE <<poseidon_hash_many(proof_facts)>>)

sign(key, hash) == [key |-> key, signed |-> hash]

-----------------------------------------------------------------------------
(* The builders: what the wasm bindings hand out.  Each writes the fields   *)
(* of a transaction twice, once for the hash and once for the JSON.         *)

\* The JSON of an invoke transaction, the signature apart; one to be proved
\* has no proof and no facts.
Json(sender, calldata, nonce, tip, bounds, proof, proof_facts) ==
    [sender |-> sender, calldata |-> calldata, nonce |-> nonce, tip |-> tip,
     bounds |-> bounds, proof |-> proof, proof_facts |-> proof_facts]

\* Without a key it is unsigned.
Output(hash, key, json) ==
    [tx_hash |-> hash, transaction |-> json,
     signature |-> IF key = None THEN None ELSE sign(key, hash)]

OrElse(option, value) == IF option = None THEN value ELSE option

\* A transaction to be proved, signed or not: no fees, no proof.
build_transaction_from_json(in) ==
    LET bounds == OrElse(in.resource_bounds, zero_fee)
    IN  Output(compute_invoke_v3_tx_hash(in.sender, in.calldata, chain_id_felt(in.chain_id),
                                         in.nonce, 0, bounds, <<>>),
               in.private_key,
               Json(in.sender, in.calldata, in.nonce, 0, bounds, None, <<>>))

\* A transaction to be sent with its proof, signed or not.
build_payload_from_json(in) ==
    LET bounds == OrElse(in.resource_bounds, default_bounds)
    IN  Output(compute_invoke_v3_tx_hash(in.sender, in.calldata, chain_id_felt(in.chain_id),
                                         in.nonce, 0, bounds, in.proof_facts),
               in.private_key,
               Json(in.sender, in.calldata, in.nonce, 0, bounds, in.proof, in.proof_facts))
=============================================================================

-------------------------- MODULE MCBrowserProver --------------------------
(* Instances of BrowserProver for TLC. *)
EXTENDS BrowserProver, TLC

Sepolia == Name("SN_SEPOLIA")

In(fn, call, block, n, bounds) ==
    [fn |-> fn, sender |-> "ada", private_key |-> "key", call |-> call, calldata |-> None,
     tx_json |-> None, nonce |-> n, chain_id |-> Sepolia, resource_bounds |-> bounds,
     block_number |-> block, proof |-> None, proof_facts |-> <<>>]

Given(data) == Json("ada", data, 1, 0, zero_fee, None, <<>>)

\* Two bounds that differ by one unit of amount and a price that would fill
\* the room of an amount.
Amount == [zero_fee EXCEPT !.l1_gas = Bound(1, 0)]
Price == [zero_fee EXCEPT !.l1_gas = Bound(0, 2^AmountBits)]

CONSTANTS c1, c2

\* Payloads with a top-level calldata can be built; the declared types have
\* none.
MCInputs ==
    (c1 :> { In("get_snip36_proof", <<"play">>, None, None, None),
             [In("proveSnip36InBrowser", None, 1, None, None)
                 EXCEPT !.tx_json = Given(<<"play">>)],
             In("buildTransactionForProving", <<"play">>, None, 1, Amount) }) @@
    (c2 :> { [In("proveSnip36InBrowser", None, None, None, None)
                 EXCEPT !.tx_json = Given(<<"bet">>)],
             In("proveSnip36InBrowser", None, None, None, None),
             In("buildPayload", <<"play">>, None, None, None),
             [In("buildPayload", <<"play">>, None, None, Price)
                 EXCEPT !.calldata = <<"play">>, !.proof = "proof"],
             [In("buildUnsignedPayload", <<"play">>, None, 1, Price)
                 EXCEPT !.calldata = <<"play">>, !.proof = "proof", !.proof_facts = <<"fact">>] })
=============================================================================

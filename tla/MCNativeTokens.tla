--------------------------- MODULE MCNativeTokens ---------------------------
(***************************************************************************)
(* A small instance of NativeTokens: a sender with tokens, a contract that *)
(* mints tok, a second contract with a slot set, an address to create at.  *)
(***************************************************************************)
EXTENDS NativeTokens

CONSTANTS sender, contract, callee, fresh, precompile, base, tok, toc, code

NoTokens == [t \in TokenId |-> 0]
Owner(n, m, nonce, c) ==
    [balances |-> [t \in TokenId |-> CASE t = base -> n [] t = tok -> m [] OTHER -> 0],
     keys |-> {base, tok}, nonce |-> nonce, code |-> c]

MCDatabase ==
    [basic |-> [a \in Address |->
        CASE a = sender -> Owner(1, 1, 0, NoCode)
          [] a = contract -> Owner(0, 1, 1, code)
          [] a = callee -> Owner(0, 0, 1, code)
          [] OTHER -> [balances |-> NoTokens, keys |-> {}, nonce |-> 0, code |-> NoCode]],
     storage |-> [p \in Address \X Slot |-> IF p[1] = callee THEN 1 ELSE 0],
     token_ids |-> <<base, tok>>]
MCDatabases == {MCDatabase}

\* tok is what the first contract mints, toc the second; nobody mints the base token.
MCTokenIdAddress == [p \in Address \X SubId |-> IF p[1] = contract THEN tok ELSE toc]
MCTransfers == {<< [id |-> tok, amount |-> 1] >>}

Input(selector, words, extra) == [selector |-> selector, words |-> words, extra |-> extra]
MCCalldata ==
    { Input("balanceOf", <<fresh, tok>>, 0),
      Input("mint", <<0, sender, 1>>, 0),
      Input("mint", <<0, fresh, 1>>, 0),
      Input("burn", <<0, sender, 1>>, 0),
      Input("burn", <<0, contract, 1>>, 0),
      Input("burn", <<0, sender, 0>>, 0),
      Input("transfer", <<callee, tok, 1>>, 0),
      Input("transfer", <<callee, tok, 1>>, 4),
      Input("transferMultiple", <<callee, 0, 0, 2, tok, toc, 2, 1, 1>>, 0),
      Input("transferMultiple", <<callee, 0, 0, 2, tok, tok, 2, 1, 1>>, 0),
      Input("transferMultiple", <<callee, 0, 0, UsizeRange, UsizeRange>>, 0),
      Input("transferAndCall", <<callee, tok, 1, 0, 32, 0>>, 0),
      Input("transferAndCall", <<callee, tok, 1, 0, 0>>, 0),
      Input("transferMultipleAndCall", <<callee, 0, 0, 0, 0, 0, 32, 0>>, 0),
      Input("transferMultipleAndCall", <<callee, 0, 0, 0, 1, tok, 1, 1, 32, 0>>, 0),
      Input("transferMultipleAndCall", <<callee, 0, 0, 0, 2, tok, toc, 2, 1, 1, 32, 0>>, 0),
      Input("transferMultipleAndCall", <<callee, 0, 0, 0, 1, tok, 2, 1, 32, 0>>, 0),
      Input("transferMultipleAndCall", <<callee, 0, 0, 0, MaxCapacity + 1, tok>>, 0),
      Input("getCallValues", << >>, 0),
      Input("unknown", << >>, 0) }
=============================================================================

---------------------------- MODULE MCToolGateway ----------------------------
EXTENDS ToolGateway, TLC

\* The intent of the first change, an intent of a second one that reuses its
\* key, and one whose arguments the tool's schema refuses.
MCIntents ==
  {[change |-> "c1", idempotency_key |-> "k1", old_field |-> "f0", new_field |-> "f1"],
   [change |-> "c2", idempotency_key |-> "k1", old_field |-> "f1", new_field |-> "f0"],
   [change |-> "c1", idempotency_key |-> "k1", old_field |-> "f0", new_field |-> "f0"]}
MCSymmetry == Permutations(Requests)
=============================================================================

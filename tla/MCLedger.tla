------------------------------ MODULE MCLedger -------------------------------
\* Ledger on a small instance: enough callers for two endorsed transactions of
\* one batch to race while a third caller is refused.
EXTENDS Ledger, TLC

Symmetry == Permutations(Clients) \union Permutations(Batches) \union Permutations(Roots)
==============================================================================

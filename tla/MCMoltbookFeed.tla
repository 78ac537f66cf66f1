--------------------------- MODULE MCMoltbookFeed ---------------------------
\* Model-checking instance of MoltbookFeed: threads, vote rows and the slots of
\* posts and comments are interchangeable.
EXTENDS MoltbookFeed, TLC

Symmetry == Permutations(Items) \cup Permutations(RowIds) \cup Permutations(Requests)
==============================================================================

--------------------------- MODULE MC_SdkCommand ---------------------------
EXTENDS SdkCommand, TLC

\* A head log of up to three commits: the base can be the head, an older
\* commit, or missing, and the walk counts up to two commits.
MCMaxCommits == 3

=============================================================================

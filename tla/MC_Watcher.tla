---------------------------- MODULE MC_Watcher -----------------------------
EXTENDS Watcher, TLC

\* Three lines: two events queue behind a skipped line, and the reader holds
\* one line while another waits in the slot.
MCMaxLines == 3

=============================================================================

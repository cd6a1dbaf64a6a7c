----------------------------- MODULE MCRaftLog -----------------------------
\* One storage, log indices to 4, terms to 2, Readys of up to 2 entries.
EXTENDS RaftLog
=============================================================================

------------------------------- MODULE MCUpload -------------------------------
\* Upload for TLC: requests and identifiers of files are interchangeable.
EXTENDS Upload, TLC

Interchangeable == Permutations(Handlers) \cup Permutations(Files)
=============================================================================

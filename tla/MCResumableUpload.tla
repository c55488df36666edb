-------------------------- MODULE MCResumableUpload --------------------------
(* Small instances of ResumableUpload.                                      *)
EXTENDS ResumableUpload, TLC

\* Readers that deliver the payload; that end early; that fail.
FullSource == {[len |-> Size, fails |-> FALSE]}
ShortSources == [len : {0, 1, Size - 2}, fails : {FALSE}]
FailingSources == [len : {0, Size - 1, Size}, fails : {TRUE}]
AllSources == FullSource \union ShortSources \union FailingSources

\* The options of PutObject, and of DelegatePutObject too.
Resumable == {[delegated |-> FALSE, single |-> FALSE]}
AllKinds == Kind

Symmetric == Permutations(Clients)

=============================================================================

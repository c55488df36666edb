------------------------------ MODULE MCSpQuery ------------------------------
(* A small instance of SpQuery, with fewer connections than calls can lose.  *)
EXTENDS SpQuery

\* One operation for each way to refuse, to ask the chain first and to read
\* the answer.
EachWay ==
  {ListGroup, ListObjects, GetObjectUploadProgress, DelegateCreateFolder,
   GetRecommendedVirtualGroupFamilyIDBySPID, FGetObject, GetChallengeInfo,
   GetChallengeInfoV2}

=============================================================================

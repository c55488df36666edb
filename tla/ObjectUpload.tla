---------------------------- MODULE ObjectUpload ----------------------------
(***************************************************************************)
(* What uploading an object promises, whatever the requests: the storage   *)
(* provider holds a growing beginning of the payload, takes the payload    *)
(* when it has all of it, and no client is told of a success before.       *)
(***************************************************************************)
EXTENDS Integers

CONSTANTS
  Clients,  \* who uploads the object
  Size      \* size of the payload, the bytes 0..Size-1

VARIABLES
  content,  \* the byte of the payload stored at each offset
  done,     \* has the storage provider taken the payload?
  acked     \* the clients whose last upload was reported a success

vars == <<content, done, acked>>

Prefix(n) == [o \in 0..n-1 |-> o]

Init == content = Prefix(0) /\ done = FALSE /\ acked = {}

\* A client is told how its upload ended: a success only when there is one.
Answer(c) ==
  \/ acked' = acked \ {c}
  \/ done' /\ acked' = acked \union {c}

\* More of the payload arrives, and perhaps the last of it.
Store ==
  /\ ~done
  /\ \E n \in 0..Size :
       /\ DOMAIN content \subseteq 0..n-1
       /\ content' = Prefix(n)
       /\ done' = TRUE => n = Size
  /\ done' \in BOOLEAN
  /\ UNCHANGED acked \/ \E c \in Clients : Answer(c)

Tell == \E c \in Clients : Answer(c) /\ UNCHANGED <<content, done>>

Next == Store \/ Tell

Spec == Init /\ [][Next]_vars

=============================================================================

----------------------------- MODULE ByteStream -----------------------------
(***************************************************************************)
(* What a pipe promises its two ends: a bounded queue of bytes.  Bytes     *)
(* come out once and in the order they went in; a read returns bytes if    *)
(* there are any, and the empty answer only at the end of the stream.      *)
(***************************************************************************)
EXTENDS Integers, Sequences

CONSTANTS Cap,     \* most bytes in transit
          Byte     \* the values of a byte

VARIABLES q,       \* bytes in transit
          out,     \* what the last read returned
          ropen, wopen

vars == <<q, out, ropen, wopen>>

Init == q = <<>> /\ out = <<>> /\ ~ropen /\ ~wopen

Create ==
  /\ ~ropen /\ ~wopen
  /\ ropen' = TRUE /\ wopen' = TRUE
  /\ UNCHANGED <<q, out>>

Write(s) ==
  /\ wopen
  /\ Len(q) + Len(s) <= Cap
  /\ q' = q \o s
  /\ UNCHANGED <<out, ropen, wopen>>

Read(n) ==
  /\ ropen
  /\ n <= Len(q)
  /\ q # <<>> \/ ~wopen
  /\ out' = SubSeq(q, 1, n)
  /\ q' = SubSeq(q, n + 1, Len(q))
  /\ UNCHANGED <<ropen, wopen>>

(* The bytes nobody read are lost only with the last end.                  *)
Close ==
  /\ \/ ropen /\ ropen' = FALSE /\ wopen' = wopen
     \/ wopen /\ wopen' = FALSE /\ ropen' = ropen
  /\ q' = IF ropen' \/ wopen' THEN q ELSE <<>>
  /\ out' = out

Next ==
  \/ Create \/ Close
  \/ \E k \in 1..Cap : \E s \in [1..k -> Byte] : Write(s)
  \/ \E n \in 0..Cap : Read(n)

Spec == Init /\ [][Next]_vars
=============================================================================

----------------------------- MODULE ByteStream -----------------------------
(***************************************************************************)
(* What a stream of cpp-shm-stream promises to its two clients, with no    *)
(* buffer, no indices and no memory model: the bytes the writer commits    *)
(* are taken by the reader in the same order, none lost, none repeated,    *)
(* none made up, and at most Capacity committed bytes are waiting.         *)
(***************************************************************************)
EXTENDS Naturals, Sequences

CONSTANT Capacity

VARIABLES
  committed, (* every byte the writer has committed, in order              *)
  taken      (* every byte the reader has taken out and committed as read  *)

streamVars == <<committed, taken>>

(* s is an initial segment of t.                                           *)
IsInitialSegment(s, t) ==
  /\ Len(s) <= Len(t)
  /\ \A i \in 1 .. Len(s) : s[i] = t[i]

Init ==
  /\ committed = << >>
  /\ taken = << >>

(* The writer appends bytes while the reader's side stays as it is.        *)
Write ==
  /\ IsInitialSegment(committed, committed')
  /\ Len(committed') <= Len(taken) + Capacity
  /\ UNCHANGED taken

(* The reader takes out bytes that were committed, in the same order.      *)
Read ==
  /\ IsInitialSegment(taken, taken')
  /\ IsInitialSegment(taken', committed)
  /\ UNCHANGED committed

Next == Write \/ Read

Spec == Init /\ [][Next]_streamVars
=============================================================================

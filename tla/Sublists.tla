------------------------------ MODULE Sublists ------------------------------
(* The loop that copies the entries of a slice it wants to keep.           *)
EXTENDS Naturals, Sequences

(* The entries of s at the positions in I, in their order. *)
Picked(s, I) ==
  LET picked[n \in 0 .. Len(s)] ==
        CASE n = 0 -> << >>
          [] n > 0 /\ n \in I -> Append(picked[n - 1], s[n])
          [] OTHER -> picked[n - 1]
  IN  picked[Len(s)]
=============================================================================

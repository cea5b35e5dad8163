------------------------------- MODULE Slices -------------------------------
(***************************************************************************)
(* Go's slices over arrays in a heap: what append does, which the builders *)
(* of pkg/bass/thunk.go call on slices that copies of a thunk share.       *)
(***************************************************************************)
EXTENDS Naturals, Sequences

(* An array holds as many cells as its capacity. *)
NilSlice == [arr |-> 0, len |-> 0]
Unset    == [is |-> "unset"]

Cells(h, s)   == [k \in 1..s.len |-> h[s.arr][k]]
Prefix(s, n)  == [s EXCEPT !.len = n]

(* A slice that is decoded from a list has no room left. *)
MakeSlice(h, vals) ==
  IF vals = <<>> THEN [heap |-> h, slice |-> NilSlice]
  ELSE [heap |-> Append(h, vals), slice |-> [arr |-> Len(h) + 1, len |-> Len(vals)]]

Grown(capacity, len) == IF len > 2 * capacity THEN len ELSE 2 * capacity

Capacity(h, s) == IF s.arr = 0 THEN 0 ELSE Len(h[s.arr])

(* append: in place if there is room, whoever else reads the array. *)
AppendTo(h, s, vals) ==
  LET len == s.len + Len(vals)
      all == Cells(h, s) \o vals
  IN  IF vals = <<>> THEN [heap |-> h, slice |-> s]
      ELSE IF len <= Capacity(h, s)
      THEN [heap |-> [h EXCEPT ![s.arr] = all \o SubSeq(@, len + 1, Len(@))],
            slice |-> [s EXCEPT !.len = len]]
      ELSE [heap |-> Append(h, [k \in 1..Grown(Capacity(h, s), len) |->
                                  IF k <= len THEN all[k] ELSE Unset]),
            slice |-> [arr |-> Len(h) + 1, len |-> len]]
=============================================================================

----------------------------- MODULE SortSearch -----------------------------
(***************************************************************************)
(* sort.Search of the Go library: binary search for the least index in     *)
(* 0 .. n - 1 at which the predicate holds, n if there is none.  It is     *)
(* right only for a predicate that is false and then true, which is what   *)
(* the callers must ensure.  The predicate is a function on 0 .. n - 1.    *)
(***************************************************************************)
EXTENDS Integers

Search(n, holds) ==
  LET bisect[r \in (0 .. n) \X (0 .. n)] ==
        LET i == r[1]
            j == r[2]
            h == (i + j) \div 2
        IN  IF i >= j THEN i ELSE IF holds[h] THEN bisect[<<i, h>>] ELSE bisect[<<h + 1, j>>]
  IN  bisect[<<0, n>>]
=============================================================================

------------------------------ MODULE Filters ------------------------------
(***************************************************************************)
(* What a loop that copies some entries of a list, or Array.filter, leaves *)
(* of it: the entries that are in a set, in their order.  SelectSeq of the *)
(* standard module takes a test instead of a set; the provers know nothing *)
(* of it, and of this recursive function all that DataLemmas shows.        *)
(***************************************************************************)
EXTENDS Naturals, Sequences

Filter(s, S) ==
    LET kept[i \in 0..Len(s)] ==
          IF i = 0 THEN << >>
          ELSE IF s[i] \in S THEN Append(kept[i - 1], s[i]) ELSE kept[i - 1]
    IN kept[Len(s)]
=============================================================================

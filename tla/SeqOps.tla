------------------------------- MODULE SeqOps -------------------------------
(* Sequence helpers in a form the provers reason about: the result is      *)
(* written as a function of its index, or as a recursive function.         *)
EXTENDS Naturals, Sequences

(* The sequence without its i-th element. *)
Without(s, i) == [j \in 1 .. Len(s) - 1 |-> IF j < i THEN s[j] ELSE s[j + 1]]

(* The first position of x in s, which holds it. *)
IndexOf(s, x) == CHOOSE i \in 1 .. Len(s) : s[i] = x

(* The elements of a sequence. *)
Elems(s) == {s[i] : i \in 1 .. Len(s)}

(* The sequence without the elements that are in S. *)
WithoutAll(s, S) ==
    LET kept[i \in 0 .. Len(s)] ==
            IF i = 0 THEN << >>
            ELSE IF s[i] \in S THEN kept[i - 1] ELSE Append(kept[i - 1], s[i])
    IN  kept[Len(s)]

(* The first position of s that holds an element of S, or the one past its *)
(* end.                                                                    *)
FirstOf(s, S) ==
    CHOOSE i \in 1 .. Len(s) + 1 : /\ i <= Len(s) => s[i] \in S
                                   /\ \A j \in 1 .. i - 1 : s[j] \notin S

(* x put before the first element of s that is in S, else at the end. *)
InsertBefore(s, x, S) ==
    LET at == FirstOf(s, S)
    IN  [j \in 1 .. Len(s) + 1 |->
            IF j < at THEN s[j] ELSE IF j = at THEN x ELSE s[j - 1]]
=============================================================================

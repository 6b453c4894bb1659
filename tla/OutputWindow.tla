----------------------------- MODULE OutputWindow -----------------------------
(***************************************************************************)
(* The output of a shell as a numbered stream: its i-th byte is written i, *)
(* so a piece of output says by itself which bytes it holds, and a gap, a  *)
(* repetition or a swap in it shows.                                       *)
(***************************************************************************)
EXTENDS Integers, Sequences

\* The bytes a+1, ..., b of the stream, in order.
Window(a, b) == [i \in 1 .. (b - a) |-> a + i]

\* The last n elements of s, or all of s when it has no more than n.
KeepLast(s, n) == IF Len(s) > n THEN SubSeq(s, Len(s) - n + 1, Len(s)) ELSE s

\* The first of the last n positions below b: what a tail of n bytes skips.
TailStart(b, n) == IF b > n THEN b - n ELSE 0

===============================================================================

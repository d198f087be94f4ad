------------------------------ MODULE MCParser ------------------------------
(***************************************************************************)
(* Every stream of up to three parts of twelve shapes, its parts named in  *)
(* the order of the stream, cut into chunks anywhere, under either policy. *)
(***************************************************************************)
EXTENDS Parser

Part(k, n, s) == [kind |-> k, name |-> n, size |-> s, needs |-> s, inner |-> <<>>]
Of(k, inner) == [Part(k, 0, CounterSize + Bytes(inner)) EXCEPT !.inner = inner]

Native(n) == Part("native", n, 3)
Sigs(n) == Part("sigs", n, 3)
Cut(n) == [Part("cut", n, 1) EXCEPT !.needs = 3]

\* The i-th part of a stream, in each shape.
Shapes(i) == LET n == 10 * i IN
  { Part("ano", n, 1), Part("version", n, CounterSize), Part("msg", n, 2), Native(n), Sigs(n),
    Part("bad", n, CounterSize), Cut(n),
    Of("wrap", <<Native(n), Sigs(n + 1)>>), Of("wrap", <<Native(n), Sigs(n + 1), Sigs(n + 2)>>),
    Of("generic", <<Native(n), Part("ano", n, 1), Part("msg", n + 1, 2), Sigs(n + 2)>>),
    Of("generic", <<Native(n), Of("generic", <<Native(n + 1), Native(n + 2)>>), Native(n + 3)>>),
    Of("generic", <<Native(n), Cut(n + 1)>>) }

StreamsOf3 == {<<a>> : a \in Shapes(1)} \cup {<<a, b>> : a \in Shapes(1), b \in Shapes(2)}
    \cup {<<a, b, c>> : a \in Shapes(1), b \in Shapes(2), c \in Shapes(3)}
Sizes == {0, 1, 2, 3, 5}
==============================================================================

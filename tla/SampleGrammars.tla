--------------------------- MODULE SampleGrammars ---------------------------
(***************************************************************************)
(* Small grammars for the models: the shapes that the repository's tests   *)
(* use (counting, ambiguity, left and right recursion, empty productions,  *)
(* chains of units, mutual recursion) and ill-formed ones.                 *)
(***************************************************************************)
EXTENDS Integers, Sequences

LOCAL G(nt, tm, start, prods) == [nt |-> nt, tm |-> tm, start |-> start, prods |-> prods]
LOCAL P(lhs, rhs) == [lhs |-> lhs, rhs |-> rhs]

\* S -> a S b | eps : the a^n b^n of anbn_dpda
Counting == G(1, 2, 0, <<P(0, <<1, 0, 2>>), P(0, <<>>)>>)
\* S -> a S b | a : the README's example
Readme == G(1, 2, 0, <<P(0, <<1, 0, 2>>), P(0, <<1>>)>>)
\* S -> a A, A -> b : one production each
Single == G(2, 2, 0, <<P(0, <<2, 1>>), P(1, <<3>>)>>)
\* S -> A A, A -> B, B -> b : chained calls, one production each
Chain == G(3, 1, 0, <<P(0, <<1, 1>>), P(1, <<2>>), P(2, <<3>>)>>)
\* S -> S S | a : ambiguous
Ambiguous == G(1, 1, 0, <<P(0, <<0, 0>>), P(0, <<1>>)>>)
\* S -> S a | b : left-recursive
LeftRecursive == G(1, 2, 0, <<P(0, <<0, 1>>), P(0, <<2>>)>>)
\* S -> a S | a : right-recursive
RightRecursive == G(1, 1, 0, <<P(0, <<1, 0>>), P(0, <<1>>)>>)
\* S -> A b, A -> a | eps : a nullable prefix
Nullable == G(2, 2, 0, <<P(0, <<1, 3>>), P(1, <<2>>), P(1, <<>>)>>)
\* S -> a S : one production, derives nothing
Endless == G(1, 1, 0, <<P(0, <<1, 0>>)>>)
\* S -> S : derives nothing
Loop == G(1, 1, 0, <<P(0, <<0>>)>>)
\* A nonterminal without productions, and a start that is not the first
Orphan == G(2, 1, 1, <<P(1, <<2>>)>>)
\* S -> a A | a B, A -> b, B -> b : two derivations of one word
TwoWays == G(3, 2, 0, <<P(0, <<3, 1>>), P(0, <<3, 2>>), P(1, <<4>>), P(2, <<4>>)>>)

WellFormed == {Counting, Readme, Single, Chain, Ambiguous, LeftRecursive,
               RightRecursive, Nullable, Loop, Orphan}

\* Every grammar of two nonterminals, one terminal and at most two
\* productions of at most one symbol, undefined symbol 3 included.
SmallGrammars ==
  LET prods == {P(A, rhs) : A \in 0..1, rhs \in {<<>>} \cup {<<s>> : s \in 0..3}}
  IN {G(2, 1, start, ps) : start \in 0..1,
        ps \in {<<>>} \cup {<<p>> : p \in prods} \cup (prods \X prods)}

\* S -> alpha | beta over two terminals, both of at most two symbols, where
\* some production does not call S: every such grammar derives a word.
TwoProductions ==
  LET rhss == {<<>>} \cup {<<s>> : s \in 0..2} \cup ((0..2) \X (0..2))
      flat(rhs) == \A i \in DOMAIN rhs : rhs[i] # 0
  IN {G(1, 2, 0, <<P(0, alpha), P(0, beta)>>) : alpha \in rhss, beta \in {b \in rhss : flat(b)}}

\* S -> alpha, A -> beta over two terminals, alpha of at most two symbols and
\* without S, beta of at most two terminals: deterministic when compiled.
OnePerNonterminal ==
  LET upTo2(A) == {<<>>} \cup {<<s>> : s \in A} \cup (A \X A)
  IN {G(2, 2, 0, <<P(0, alpha), P(1, beta)>>) : alpha \in upTo2(1..3), beta \in upTo2(2..3)}

\* Ill-formed: a terminal on a left-hand side, an undefined symbol, a start
\* that is no nonterminal, all of it at once, no nonterminal at all.
IllFormed == {
  G(1, 1, 0, <<P(0, <<1>>), P(1, <<1>>)>>),
  G(1, 1, 0, <<P(0, <<1, 2>>)>>),
  G(1, 1, 1, <<P(0, <<1>>)>>),
  G(1, 1, 2, <<P(3, <<9>>)>>),
  G(0, 1, 0, <<>>)}
=============================================================================

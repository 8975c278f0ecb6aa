-------------------------- MODULE MCBencodeParser --------------------------
(* Instances of the bencode parser for TLC. *)
EXTENDS BencodeParser

\* The bytes the instance uses, in the order of their ASCII codes.
TestBytes == <<" ", "+", "-">> \o Digits \o <<":", "a", "d", "e", "i", "l">>

\* Scalars with the edges of the instance's int64_t, and the strings whose
\* bytes look like syntax.
Scalars == {Integer(0), Integer(-1), Integer(10), Integer(-12), String(<< >>),
            String(<<"e">>), String(<<"1", ":">>)}

Keys == {<< >>, <<"e">>, <<"d", "a">>}

ListsOf(values, n) == {List(s) : s \in UNION {[1 .. k -> values] : k \in 0 .. n}}

DictsOf(values) ==
  {Dict(map) : map \in UNION {[ks -> values] : ks \in SUBSET Keys}}

\* Values up to one level deeper than the instance's MAX_RECURSION_DEPTH.
Nested(values) == {List(<<v>>) : v \in values} \cup {Dict(<<"a">> :> v) : v \in values}
Shallow == Scalars \cup ListsOf({Integer(0), String(<<"e">>)}, 3)
                   \cup DictsOf({Integer(0), String(<<"e">>)})
Seeds == Scalars \cup ListsOf({Integer(10)}, 2) \cup DictsOf({String(<< >>)})
TestValues == Shallow \cup Seeds \cup Nested(Seeds) \cup Nested(Nested(Seeds))

TestDepth[v \in TestValues] ==
  IF Elements(v) = {} THEN 0
  ELSE 1 + Max({TestDepth[e] : e \in Elements(v)})

\* Every encoding, cut off at every place, and with something behind it.
Encoded == {Encode[v] : v \in TestValues}
WholeAndCut == UNION {Prefixes(s) : s \in Encoded} \cup {s \o <<"e">> : s \in Encoded}

\* Texts made of tokens in any order, most of them malformed.
Tokens == {<<"l">>, <<"d">>, <<"e">>, <<"i", "1", "e">>, <<"0", ":">>,
           <<"1", ":", "e">>, <<"i", "0", "1", "e">>, <<"i", "1", "2", "e">>}
TokenTexts == {FlattenSeq(s) : s \in UNION {[1 .. n -> Tokens] : n \in 0 .. 4}}

\* Keys with lengths std::stoul reads in ways of its own.
KeyLengths == {<<" ", "1">>, <<"+", "1">>, <<"1", " ">>, <<"1", "a">>, <<"-", "1">>,
               <<"+", "-", "1">>, <<"-">>, <<" ">>, << >>, <<"1", "0", "0">>}
KeyTexts == {<<"d">> \o n \o <<":", "a", "i", "1", "e", "e">> : n \in KeyLengths}

TestTexts == WholeAndCut \cup TokenTexts \cup KeyTexts

TestBlanks == {" "}
=============================================================================

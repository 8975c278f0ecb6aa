--------------------------- MODULE BencodeValues ---------------------------
(***************************************************************************)
(* The values of the bencode format and encode(), as in                    *)
(* src/src/core/bencode_parser.cpp.  A byte is a one-character string, a   *)
(* text a sequence of bytes.                                               *)
(***************************************************************************)
EXTENDS Integers, Sequences, SequencesExt, FiniteSetsExt

CONSTANTS
  Bytes,    \* the bytes of a text, in the order of their codes
  Values,   \* values, with the elements of each
  Depth     \* the containers around the innermost element of a value

Byte == Range(Bytes)

Digits == <<"0", "1", "2", "3", "4", "5", "6", "7", "8", "9">>

\* struct List, struct Dict and the variant Value.
Integer(n) == [type |-> "int", int |-> n]
String(s) == [type |-> "string", string |-> s]
List(items) == [type |-> "list", items |-> items]
Dict(map) == [type |-> "dict", map |-> map]

\* The elements of a container; a scalar has none.
Elements(v) ==
  CASE v.type = "list" -> {v.items[i] : i \in DOMAIN v.items}
    [] v.type = "dict" -> {v.map[k] : k \in DOMAIN v.map}
    [] OTHER -> {}

ASSUME BytesAssumption ==
  /\ Bytes \in Seq(STRING)
  /\ Range(Digits) \cup {"-", ":", "d", "e", "i", "l"} \subseteq Byte

ASSUME ValuesAssumption ==
  \A v \in Values :
    \/ v.type = "int" /\ v = Integer(v.int) /\ v.int \in Int
    \/ v.type = "string" /\ v = String(v.string) /\ v.string \in Seq(Byte)
    \/ v.type = "list" /\ v = List(v.items) /\ v.items \in Seq(Values)
    \/ /\ v.type = "dict"
       /\ v = Dict(v.map)
       /\ v.map \in [DOMAIN v.map -> Values]
       /\ DOMAIN v.map \subseteq Seq(Byte) /\ IsFiniteSet(DOMAIN v.map)

\* A value is a finite tree.
ASSUME DepthAssumption ==
  /\ Depth \in [Values -> Nat]
  /\ \A v \in Values :
       /\ \A e \in Elements(v) : Depth[e] < Depth[v]
       /\ Depth[v] # 0 => \E e \in Elements(v) : Depth[v] = Depth[e] + 1

IsDigit(c) == \E i \in 1 .. 10 : Digits[i] = c

DigitValue(c) == (CHOOSE i \in 1 .. 10 : Digits[i] = c) - 1

Code(c) == CHOOSE i \in 1 .. Len(Bytes) : Bytes[i] = c

\* The order of std::string, which std::map keeps its keys in.
KeyBefore(k, l) ==
  \E i \in DOMAIN l :
    /\ i <= Len(k) + 1
    /\ \A j \in 1 .. i - 1 : k[j] = l[j]
    /\ i = Len(k) + 1 \/ Code(k[i]) < Code(l[i])

\* A set of keys, in that order.
SortedKeys(keys) ==
  CHOOSE s \in [1 .. Cardinality(keys) -> keys] :
    \A i, j \in DOMAIN s : i < j => KeyBefore(s[i], s[j])

KeysOf(v) == SortedKeys(DOMAIN v.map)

\* std::to_string of a number that is not negative.
NatText[n \in Nat] ==
  IF n < 10 THEN <<Digits[n + 1]>>
  ELSE NatText[n \div 10] \o <<Digits[(n % 10) + 1]>>

ToText(n) == IF n < 0 THEN <<"-">> \o NatText[-n] ELSE NatText[n]

EncodeString(s) == ToText(Len(s)) \o <<":">> \o s

Encode[v \in Values] ==
  IF v.type = "int" THEN <<"i">> \o ToText(v.int) \o <<"e">>
  ELSE IF v.type = "string" THEN EncodeString(v.string)
  ELSE IF v.type = "list"
       THEN <<"l">> \o FlattenSeq([i \in DOMAIN v.items |-> Encode[v.items[i]]])
              \o <<"e">>
       ELSE <<"d">> \o FlattenSeq([i \in DOMAIN KeysOf(v) |->
                         EncodeString(KeysOf(v)[i]) \o Encode[v.map[KeysOf(v)[i]]]])
              \o <<"e">>
=============================================================================

--------------------------- MODULE BencodeParser ---------------------------
(***************************************************************************)
(* bencode::parse (src/src/core/bencode_parser.cpp) as a machine: the      *)
(* recursive calls of parseList and parseDict are the frames of a stack,   *)
(* and the depth argument of parse is the number of frames.                *)
(***************************************************************************)
EXTENDS BencodeValues

CONSTANTS
  Inputs,     \* the texts parse() is called with
  MaxDepth,   \* MAX_RECURSION_DEPTH
  MaxInt,     \* the largest int64_t
  MaxSize,    \* the largest size_t
  Blanks      \* the bytes std::isspace is true of

\* std::stoll throws outside the range of int64_t.
InRange(n) == n <= MaxInt /\ n >= -MaxInt - 1

\* A std::string is no longer than a size_t can say.
ASSUME ParserAssumption ==
  /\ MaxDepth \in Nat /\ MaxInt \in Nat /\ MaxSize \in Nat
  /\ Inputs \subseteq Seq(Byte)
  /\ \A t \in Inputs : Len(t) <= MaxSize
  /\ \A v \in Values : v.type = "int" => InRange(v.int)
  /\ \A v \in Values : Len(Encode[v]) <= MaxSize
  /\ Blanks \subseteq Byte
  /\ \A c \in Blanks : ~IsDigit(c) /\ c \notin {"+", "-", ":"}

VARIABLES
  data,      \* the text
  pos,       \* the position, counted from 1
  stack,     \* open containers, the innermost last
  outcome,   \* "running", "returned" or "thrown"
  result     \* the value returned, in a sequence

parserVars == <<data, pos, stack, outcome, result>>

ParserInit ==
  /\ data \in Inputs
  /\ pos = 1
  /\ stack = << >>
  /\ outcome = "running"
  /\ result = << >>

Running == outcome = "running"

-----------------------------------------------------------------------------
(* Looking at the text *)

\* string_view's operator[] at the end of a std::string's text reads its
\* terminating NUL.
Char(p) == IF p <= Len(data) THEN data[p] ELSE "NUL"

\* data.find(c, p), as a set of at most one position.
Find(c, p) ==
  LET found == {i \in p .. Len(data) : data[i] = c}
  IN  {i \in found : \A j \in found : i <= j}

\* data.substr(p, n), cut off at the end of the text.
SubStr(p, n) ==
  SubSeq(data, p, IF p + n - 1 <= Len(data) THEN p + n - 1 ELSE Len(data))

Number(digits) ==
  LET number[n \in 0 .. Len(digits)] ==
        IF n = 0 THEN 0 ELSE 10 * number[n - 1] + DigitValue(digits[n])
  IN  number[Len(digits)]

\* The digits a text starts with.
LeadingDigits(s) ==
  LET n == CHOOSE k \in 0 .. Len(s) :
             /\ \A i \in 1 .. k : IsDigit(s[i])
             /\ k < Len(s) => ~IsDigit(s[k + 1])
  IN  SubSeq(s, 1, n)

\* The text behind the blanks it starts with.
AfterBlanks(s) ==
  LET n == CHOOSE k \in 0 .. Len(s) :
             /\ \A i \in 1 .. k : s[i] \in Blanks
             /\ k < Len(s) => s[k + 1] \notin Blanks
  IN  SubSeq(s, n + 1, Len(s))

\* std::stoul, as a set of at most one number: it takes blanks, a sign and
\* digits, ignores what follows, and throws if there are no digits or if their
\* number is above MaxSize.  "-" counts down from MaxSize + 1.
Stoul(s) ==
  LET signed == AfterBlanks(s)
      hasSign == signed # << >> /\ signed[1] \in {"+", "-"}
      digits == LeadingDigits(IF hasSign THEN Tail(signed) ELSE signed)
  IN  IF digits = << >> THEN {}
      ELSE {IF signed[1] = "-" THEN (-n) % (MaxSize + 1) ELSE n :
              n \in {Number(digits)} \cap 0 .. MaxSize}

AllDigits(s) == \A i \in DOMAIN s : IsDigit(s[i])

IsValidBencodeInt(s) ==
  LET negative == s # << >> /\ s[1] = "-"
      digits == IF negative THEN Tail(s) ELSE s
  IN  /\ digits # << >>
      /\ AllDigits(digits)
      /\ digits[1] = "0" => ~negative /\ Len(digits) = 1

IntValue(s) == IF s[1] = "-" THEN -Number(Tail(s)) ELSE Number(s)

\* pos + len for the string of n bytes behind the colon at c, in the size_t
\* it is computed in: the position of its last byte, if nothing wraps.
StringEnd(c, n) == (c + n) % (MaxSize + 1)

\* A faulty variant: the bound is checked before the length is added.
FitsStart(c, n) == c <= Len(data)

Fits(c, n) == StringEnd(c, n) <= Len(data)

\* The string at p: its bytes and the position behind it, or nothing.
StringAt(p) ==
  UNION {{[text |-> SubStr(colon + 1, n), next |-> StringEnd(colon, n) + 1] :
            n \in {k \in Stoul(SubSeq(data, p, colon - 1)) : Fits(colon, k)}} :
           colon \in Find(":", p)}

\* The integer at p, likewise.
IntAt(p) ==
  {[int |-> IntValue(SubSeq(data, p + 1, end - 1)), next |-> end + 1] :
     end \in {e \in Find("e", p + 1) :
                LET digits == SubSeq(data, p + 1, e - 1)
                IN  IsValidBencodeInt(digits) /\ InRange(IntValue(digits))}}

-----------------------------------------------------------------------------
(* The calls on the stack *)

\* A dict's frame has the key whose value is being parsed in a sequence.
ListFrame == [id |-> "l", values |-> << >>]
DictFrame == [id |-> "d", values |-> << >>, key |-> << >>]

Top == Last(stack)

InDict == stack # << >> /\ Top.id = "d"

AwaitsValue == InDict /\ Top.key # << >>

\* A faulty variant: the end of the text ends every container.
AtEndOrPast == pos > Len(data) \/ data[pos] = "e"

\* The test the loops of parseList and parseDict end with.
AtEnd == pos <= Len(data) /\ data[pos] = "e"

\* The loop of the innermost container is at its condition.
InLoop == Running /\ stack # << >> /\ ~AwaitsValue

\* parse() is being entered.
Entered ==
  /\ Running
  /\ \/ stack = << >>
     \/ AwaitsValue
     \/ ~InDict /\ ~AtEnd /\ pos <= Len(data)

\* A faulty variant of the guard: one level less.
TooDeepByOne == Len(stack) >= MaxDepth

TooDeep == Len(stack) > MaxDepth

Dispatch == Entered /\ data # << >> /\ ~TooDeep

\* std::map::emplace keeps an entry that is there.
Emplace(map, key, v) ==
  [k \in DOMAIN map \cup {key} |-> IF k \in DOMAIN map THEN map[k] ELSE v]

\* The frame with a value its call to parse() returned.
WithValue(frame, v) ==
  IF frame.id = "l" THEN [frame EXCEPT !.values = Append(@, v)]
  ELSE [frame EXCEPT !.values = Emplace(@, frame.key[1], v), !.key = << >>]

\* parse() returns v to the frames that are left.
Return(v, frames) ==
  IF frames = << >>
  THEN stack' = << >> /\ outcome' = "returned" /\ result' = <<v>>
  ELSE /\ stack' = [frames EXCEPT ![Len(frames)] = WithValue(@, v)]
       /\ UNCHANGED <<outcome, result>>

-----------------------------------------------------------------------------
ParseInt ==
  /\ Dispatch
  /\ Char(pos) = "i"
  /\ \E n \in IntAt(pos) :
       /\ Return(Integer(n.int), stack)
       /\ pos' = n.next
  /\ UNCHANGED data

ParseString ==
  /\ Dispatch
  /\ IsDigit(Char(pos))
  /\ \E s \in StringAt(pos) :
       /\ Return(String(s.text), stack)
       /\ pos' = s.next
  /\ UNCHANGED data

\* parseList and parseDict up to their loops.
Open ==
  /\ Dispatch
  /\ Char(pos) \in {"l", "d"}
  /\ stack' = Append(stack, IF Char(pos) = "l" THEN ListFrame ELSE DictFrame)
  /\ pos' = pos + 1
  /\ UNCHANGED <<data, outcome, result>>

\* parseDict reads a key by parseString, whatever byte it starts with.
ParseKey ==
  /\ InLoop
  /\ InDict
  /\ ~AtEnd
  /\ pos <= Len(data)
  /\ \E s \in StringAt(pos) :
       /\ stack' = [stack EXCEPT ![Len(stack)].key = <<s.text>>]
       /\ pos' = s.next
  /\ UNCHANGED <<data, outcome, result>>

Close ==
  /\ InLoop
  /\ AtEnd
  /\ Return(IF InDict THEN Dict(Top.values) ELSE List(Top.values), Front(stack))
  /\ pos' = pos + 1
  /\ UNCHANGED data

\* Malformed input: the exceptions, which nothing in the parser catches.
Malformed ==
  \/ Entered /\ (data = << >> \/ TooDeep)
  \/ Dispatch /\ Char(pos) = "i" /\ IntAt(pos) = {}
  \/ Dispatch /\ IsDigit(Char(pos)) /\ StringAt(pos) = {}
  \/ Dispatch /\ ~IsDigit(Char(pos)) /\ Char(pos) \notin {"i", "l", "d"}
  \/ InLoop /\ ~AtEnd /\ pos > Len(data)
  \/ InLoop /\ InDict /\ ~AtEnd /\ StringAt(pos) = {}

Throw ==
  /\ Malformed
  /\ outcome' = "thrown"
  /\ UNCHANGED <<data, pos, stack, result>>

ParserNext == ParseInt \/ ParseString \/ Open \/ ParseKey \/ Close \/ Throw

ParserSpec == ParserInit /\ [][ParserNext]_parserVars

-----------------------------------------------------------------------------
(* Properties *)

\* Type invariant; the position never leaves the text by more than one.
ParserTypeOK ==
  /\ pos \in 1 .. Len(data) + 1
  /\ Len(stack) <= MaxDepth + 1
  /\ \A i \in DOMAIN stack : stack[i].id \in {"l", "d"}
  /\ outcome \in {"running", "returned", "thrown"}
  /\ Len(result) = IF outcome = "returned" THEN 1 ELSE 0

\* parse() undoes encode(): a text that starts with the encoding of a value
\* gives that value, whatever follows it, and is refused if the value is
\* nested deeper than MAX_RECURSION_DEPTH.
EncodedIsRecovered ==
  ~Running =>
    \A v \in Values : IsPrefix(Encode[v], data) =>
      IF Depth[v] <= MaxDepth THEN result = <<v>> ELSE outcome = "thrown"

\* A text cut off before its end is refused: no proper prefix of an encoding
\* is taken for a value.
TruncatedIsRefused ==
  ~Running =>
    \A v \in Values : IsStrictPrefix(data, Encode[v]) => outcome = "thrown"
=============================================================================

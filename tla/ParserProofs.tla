---------------------------- MODULE ParserProofs ----------------------------
(***************************************************************************)
(* Theorems about bencode::parse, for every text, recursion limit and      *)
(* width of the integers, and for every value that encode() writes.        *)
(***************************************************************************)
EXTENDS EncodingProofs

-----------------------------------------------------------------------------
(* Positions *)

\* A byte that is found is one of the text.
LEMMA FindFacts ==
  ASSUME data \in Seq(Byte), NEW c, NEW p \in Nat \ {0}, NEW i \in Find(c, p)
  PROVE  i \in p .. Len(data) /\ i \in 1 .. Len(data) /\ data[i] = c
  BY DEF Find

\* What std::stoul gives is a size_t, and so is a sum of two.
LEMMA SizeOfSum ==
  ASSUME NEW a \in Int, NEW n \in Int
  PROVE  /\ (a + n) % (MaxSize + 1) \in Nat
         /\ a + n \in 0 .. MaxSize => (a + n) % (MaxSize + 1) = a + n
  <1> DEFINE x == a + n
             y == MaxSize + 1
  <1>1. x \in Int /\ y \in Nat /\ y > 0 /\ (x \in 0 .. MaxSize => x < y /\ x >= 0)
    BY ParserAssumption
  <1> HIDE DEF x, y
  <1>2. x % y \in Nat
    BY <1>1
  <1>3. x \in 0 .. MaxSize => x % y = x
    BY <1>1
  <1>4. QED
    BY <1>2, <1>3 DEF x, y

LEMMA StoulType ==
  ASSUME NEW s, NEW n \in Stoul(s)
  PROVE  n \in Nat
  <1>1. PICK k \in 0 .. MaxSize : n = k \/ n = (-k) % (MaxSize + 1)
    <2> DEFINE x == AfterBlanks(s)
    <2>1. QED
      BY DEF Stoul
  <1>2. -k \in Int /\ k \in Nat /\ 0 + (-k) = -k
    BY ParserAssumption
  <1>3. (-k) % (MaxSize + 1) \in Nat
    BY <1>2, SizeOfSum
  <1>4. QED
    BY <1>1, <1>2, <1>3

\* A string ends in the text, whatever its length says.
LEMMA StringEnds ==
  ASSUME data \in Seq(Byte), NEW p \in 1 .. Len(data) + 1, NEW s \in StringAt(p)
  PROVE  s.next \in 1 .. Len(data) + 1
  <1>1. PICK c \in Find(":", p) :
          \E n \in Stoul(SubSeq(data, p, c - 1)) :
            Fits(c, n) /\ s.next = StringEnd(c, n) + 1
    BY DEF StringAt
  <1>2. PICK n \in Stoul(SubSeq(data, p, c - 1)) :
          Fits(c, n) /\ s.next = StringEnd(c, n) + 1
    BY <1>1
  <1>3. c \in Nat /\ Len(data) \in Nat
    BY FindFacts
  <1>4. n \in Nat
    BY <1>2, StoulType
  <1>5. StringEnd(c, n) \in Nat
    <2>1. c \in Int /\ n \in Int
      BY <1>3, <1>4
    <2>2. QED
      BY <2>1, SizeOfSum DEF StringEnd
  <1>6. QED
    BY <1>2, <1>3, <1>5 DEF Fits

\* An integer, likewise.
LEMMA IntEnds ==
  ASSUME data \in Seq(Byte), NEW p \in 1 .. Len(data) + 1, NEW n \in IntAt(p)
  PROVE  n.next \in p + 1 .. Len(data) + 1
  <1>1. PICK e \in Find("e", p + 1) : n.next = e + 1
    BY DEF IntAt
  <1>2. e \in p + 1 .. Len(data) /\ Len(data) \in Nat
    <2>1. p + 1 \in Nat \ {0}
      OBVIOUS
    <2>2. QED
      BY <2>1, FindFacts
  <1>3. QED
    BY <1>1, <1>2

\* The byte at a position that is no NUL is one of the text.
LEMMA CharInText ==
  ASSUME Char(pos) # "NUL"
  PROVE  pos <= Len(data)
  BY DEF Char

-----------------------------------------------------------------------------
(* The stack *)

Frame(f) ==
  \/ \E xs : f = [id |-> "l", values |-> xs]
  \/ \E map, key : f = [id |-> "d", values |-> map, key |-> key]

\* A sequence of frames.
Frames(s) == s \in Seq({s[i] : i \in DOMAIN s}) /\ \A i \in DOMAIN s : Frame(s[i])

LEMMA SeqOfOwn ==
  ASSUME NEW S, NEW s \in Seq(S)
  PROVE  s \in Seq({s[i] : i \in DOMAIN s})
  OBVIOUS

\* A stack stays one when a frame is pushed, popped or changed.
LEMMA FramesLen ==
  ASSUME NEW s, Frames(s)
  PROVE  Len(s) \in Nat /\ DOMAIN s = 1 .. Len(s)
  BY DEF Frames

LEMMA FramesPushed ==
  ASSUME NEW s, Frames(s), NEW f, Frame(f)
  PROVE  Frames(Append(s, f)) /\ Len(Append(s, f)) = Len(s) + 1
  <1> DEFINE S == {s[i] : i \in DOMAIN s} \cup {f}
             t == Append(s, f)
  <1>1. s \in Seq(S)
    <2> DEFINE R == {s[i] : i \in DOMAIN s}
    <2>1. s \in Seq(R)
      BY DEF Frames
    <2>2. R \subseteq S
      OBVIOUS
    <2> HIDE DEF R, S
    <2>3. QED
      BY <2>1, <2>2
  <1>2. t \in Seq(S) /\ Len(t) = Len(s) + 1 /\ DOMAIN t = 1 .. Len(s) + 1
    <2> HIDE DEF S
    <2>1. f \in S
      BY DEF S
    <2>2. QED
      BY <1>1, <2>1
  <1>3. \A i \in 1 .. Len(s) + 1 : t[i] = IF i <= Len(s) THEN s[i] ELSE f
    BY <1>1
  <1>4. t \in Seq({t[i] : i \in DOMAIN t})
    <2> HIDE DEF S, t
    <2> QED
      BY <1>2, SeqOfOwn
  <1>5. ASSUME NEW i \in DOMAIN t PROVE Frame(t[i])
    <2>1. Len(s) \in Nat /\ DOMAIN s = 1 .. Len(s)
      BY FramesLen
    <2> HIDE DEF t
    <2>2. i \in 1 .. Len(s) + 1 /\ t[i] = IF i <= Len(s) THEN s[i] ELSE f
      BY <1>2, <1>3
    <2>3. QED
      BY <2>1, <2>2 DEF Frames
  <1> HIDE DEF t
  <1>6. Frames(t)
    BY <1>4, <1>5 DEF Frames
  <1>7. QED
    BY <1>2, <1>6 DEF t

LEMMA FramesPopped ==
  ASSUME NEW s, Frames(s), s # << >>
  PROVE  Frames(Front(s)) /\ Len(Front(s)) = Len(s) - 1 /\ Len(s) # 0
  <1> DEFINE t == Front(s)
             S == {s[i] : i \in DOMAIN s}
  <1>0. s \in Seq(S) /\ Len(s) \in Nat /\ Len(s) # 0 /\ DOMAIN s = 1 .. Len(s)
    <2>1. s \in Seq(S)
      BY DEF Frames
    <2> HIDE DEF S
    <2>2. QED
      BY <2>1
  <1>1. /\ t \in Seq(S) /\ Len(t) = Len(s) - 1 /\ DOMAIN t = 1 .. Len(s) - 1
        /\ \A i \in 1 .. Len(s) - 1 : t[i] = s[i]
    <2> HIDE DEF S
    <2> QED
      BY <1>0 DEF Front
  <1>2. t \in Seq({t[i] : i \in DOMAIN t})
    <2> HIDE DEF S, t
    <2> QED
      BY <1>1, SeqOfOwn
  <1> HIDE DEF t
  <1>3. ASSUME NEW i \in DOMAIN t PROVE Frame(t[i])
    BY <1>0, <1>1 DEF Frames
  <1>4. Frames(t)
    BY <1>2, <1>3 DEF Frames
  <1>5. QED
    BY <1>0, <1>1, <1>4 DEF t

\* Another frame in the place of one.
LEMMA FramesChanged ==
  ASSUME NEW s, Frames(s), NEW k \in 1 .. Len(s), NEW f, Frame(f)
  PROVE  Frames([s EXCEPT ![k] = f]) /\ Len([s EXCEPT ![k] = f]) = Len(s)
  <1> DEFINE S == {s[i] : i \in DOMAIN s} \cup {f}
             t == [s EXCEPT ![k] = f]
  <1>1. s \in Seq(S)
    <2> DEFINE R == {s[i] : i \in DOMAIN s}
    <2>1. s \in Seq(R)
      BY DEF Frames
    <2>2. R \subseteq S
      OBVIOUS
    <2> HIDE DEF R, S
    <2>3. QED
      BY <2>1, <2>2
  <1>2. /\ t \in Seq(S) /\ Len(t) = Len(s) /\ DOMAIN t = 1 .. Len(s)
        /\ \A i \in 1 .. Len(s) : t[i] = IF i = k THEN f ELSE s[i]
    <2>1. f \in S
      OBVIOUS
    <2> HIDE DEF S
    <2>2. QED
      BY <1>1, <2>1
  <1>3. t \in Seq({t[i] : i \in DOMAIN t})
    <2> HIDE DEF S, t
    <2> QED
      BY <1>2, SeqOfOwn
  <1> HIDE DEF t
  <1>4. ASSUME NEW i \in DOMAIN t PROVE Frame(t[i])
    BY <1>2, FramesLen DEF Frames
  <1>5. Frames(t)
    BY <1>3, <1>4 DEF Frames
  <1>6. QED
    BY <1>2, <1>5 DEF t

\* A frame with an element more is a frame.
LEMMA WithValueIsFrame ==
  ASSUME NEW f, Frame(f), NEW v
  PROVE  Frame(WithValue(f, v))
  <1>1. ASSUME NEW xs, f = [id |-> "l", values |-> xs]
        PROVE  Frame(WithValue(f, v))
    <2>1. WithValue(f, v) = [id |-> "l", values |-> Append(xs, v)]
      BY <1>1 DEF WithValue
    <2>2. QED
      BY <2>1 DEF Frame
  <1>2. ASSUME NEW map, NEW key, f = [id |-> "d", values |-> map, key |-> key]
        PROVE  Frame(WithValue(f, v))
    <2> DEFINE grown == Emplace(map, key[1], v)
    <2>1. WithValue(f, v) = [f EXCEPT !.values = grown, !.key = << >>]
      BY <1>2 DEF WithValue
    <2> HIDE DEF grown
    <2>2. WithValue(f, v) = [id |-> "d", values |-> grown, key |-> << >>]
      BY <1>2, <2>1
    <2>3. QED
      BY <2>2 DEF Frame
  <1>3. QED
    BY <1>1, <1>2 DEF Frame

\* The innermost frame with a key.
LEMMA KeyIsFrame ==
  ASSUME NEW f, Frame(f), f.id = "d", NEW k
  PROVE  Frame([f EXCEPT !.key = k])
  <1>1. PICK map, key : f = [id |-> "d", values |-> map, key |-> key]
    BY DEF Frame
  <1>2. [f EXCEPT !.key = k] = [id |-> "d", values |-> map, key |-> k]
    BY <1>1
  <1>3. QED
    BY <1>2 DEF Frame

-----------------------------------------------------------------------------
(* The inductive invariant *)

\* The text is one, the stack holds frames, and parse() has a result when it
\* has returned, and only then.
ParserShape ==
  /\ data \in Seq(Byte)
  /\ Frames(stack)
  /\ result = << >> \/ outcome = "returned"
  /\ outcome = "returned" => \E v : result = <<v>>

ParserInv == ParserShape /\ ParserTypeOK

\* The invariant holds initially.
LEMMA InitShape ==
  ParserInit => ParserInv
  <1> SUFFICES ASSUME ParserInit PROVE ParserInv
    OBVIOUS
  <1>1. data \in Seq(Byte) /\ Len(data) \in Nat /\ MaxDepth \in Nat
    BY ParserAssumption DEF ParserInit
  <1>2. Frames(stack)
    BY DEF ParserInit, Frames
  <1>3. QED
    BY <1>1, <1>2 DEF ParserInit, ParserInv, ParserShape, ParserTypeOK

\* What ParserInv says of the stack, and of a frame's kind.
LEMMA FrameKinds ==
  ASSUME NEW s, Frames(s)
  PROVE  \A i \in DOMAIN s : s[i].id \in {"l", "d"}
  BY DEF Frames, Frame

\* A value returned to frames: they stay frames, or it is the result.
LEMMA ReturnKeepsShape ==
  ASSUME NEW v, NEW frames, Frames(frames), Return(v, frames),
         outcome = "running", result = << >>
  PROVE  /\ Frames(stack') /\ Len(stack') = Len(frames)
         /\ \/ outcome' = "running" /\ result' = << >>
            \/ outcome' = "returned" /\ result' = <<v>>
  <1>1. CASE frames = << >>
    BY <1>1 DEF Return
  <1>2. CASE frames # << >>
    <2> DEFINE n == Len(frames)
               f == WithValue(frames[n], v)
    <2>1. n \in 1 .. Len(frames)
      BY <1>2 DEF Frames
    <2>2. Frame(f)
      <3>1. Frame(frames[n])
        BY <2>1, FramesLen DEF Frames
      <3> HIDE DEF n
      <3>2. QED
        BY <3>1, WithValueIsFrame
    <2>3. stack' = [frames EXCEPT ![n] = f] /\ UNCHANGED <<outcome, result>>
      BY <1>2 DEF Return
    <2> HIDE DEF n, f
    <2>4. Frames(stack') /\ Len(stack') = Len(frames)
      BY <2>1, <2>2, <2>3, FramesChanged
    <2>5. QED
      BY <2>3, <2>4
  <1>3. QED
    BY <1>1, <1>2

\* What the invariant says of the position and the stack.
LEMMA Facts ==
  ASSUME ParserInv
  PROVE  /\ data \in Seq(Byte) /\ Len(data) \in Nat /\ pos \in 1 .. Len(data) + 1
         /\ Frames(stack) /\ Len(stack) \in Nat /\ Len(stack) <= MaxDepth + 1
         /\ MaxDepth \in Nat
         /\ Running => result = << >>
  <1>1. Len(stack) \in Nat
    BY FramesLen DEF ParserInv, ParserShape
  <1>2. QED
    BY <1>1, ParserAssumption DEF ParserInv, ParserShape, ParserTypeOK, Running

\* The invariant from its parts, one step later.
LEMMA InvNext ==
  ASSUME data' \in Seq(Byte), Frames(stack'), Len(stack') <= MaxDepth + 1,
         pos' \in 1 .. Len(data') + 1,
         \/ outcome' = "running" /\ result' = << >>
         \/ outcome' = "returned" /\ \E v : result' = <<v>>
         \/ outcome' = "thrown" /\ result' = << >>
  PROVE  ParserInv'
  <1>1. ParserShape'
    BY DEF ParserShape
  <1>2. \A i \in DOMAIN stack' : stack'[i].id \in {"l", "d"}
    BY FrameKinds
  <1>3. outcome' \in {"running", "returned", "thrown"}
    OBVIOUS
  <1>4. Len(result') = IF outcome' = "returned" THEN 1 ELSE 0
    OBVIOUS
  <1>5. QED
    BY <1>1, <1>2, <1>3, <1>4 DEF ParserInv, ParserTypeOK

\* Each step keeps it.
LEMMA ParseIntKeeps ==
  ASSUME ParserInv, ParseInt
  PROVE  ParserInv'
  <1>1. PICK n \in IntAt(pos) : Return(Integer(n.int), stack) /\ pos' = n.next
    BY DEF ParseInt
  <1>2. Running /\ data' = data
    BY DEF ParseInt, Dispatch, Entered
  <1>3. n.next \in pos + 1 .. Len(data) + 1
    BY Facts, IntEnds
  <1>4. QED
    BY <1>1, <1>2, <1>3, Facts, ReturnKeepsShape, InvNext DEF Running

LEMMA ParseStringKeeps ==
  ASSUME ParserInv, ParseString
  PROVE  ParserInv'
  <1>1. PICK s \in StringAt(pos) : Return(String(s.text), stack) /\ pos' = s.next
    BY DEF ParseString
  <1>2. Running /\ data' = data
    BY DEF ParseString, Dispatch, Entered
  <1>3. s.next \in 1 .. Len(data) + 1
    BY Facts, StringEnds
  <1>4. QED
    BY <1>1, <1>2, <1>3, Facts, ReturnKeepsShape, InvNext DEF Running

LEMMA OpenKeeps ==
  ASSUME ParserInv, Open
  PROVE  ParserInv'
  <1> DEFINE f == IF Char(pos) = "l" THEN ListFrame ELSE DictFrame
  <1>1. Frame(f)
    BY DEF Frame, ListFrame, DictFrame
  <1>2. /\ Running /\ ~TooDeep /\ data' = data /\ pos' = pos + 1
        /\ stack' = Append(stack, f) /\ outcome' = outcome /\ result' = result
    BY DEF Open, Dispatch, Entered
  <1>3. pos <= Len(data)
    BY CharInText DEF Open
  <1> HIDE DEF f
  <1>4. Frames(stack') /\ Len(stack') = Len(stack) + 1
    BY <1>1, <1>2, Facts, FramesPushed
  <1>5. QED
    BY <1>2, <1>3, <1>4, Facts, InvNext DEF Running, TooDeep

LEMMA ParseKeyKeeps ==
  ASSUME ParserInv, ParseKey
  PROVE  ParserInv'
  <1>1. PICK s \in StringAt(pos) :
          stack' = [stack EXCEPT ![Len(stack)].key = <<s.text>>] /\ pos' = s.next
    BY DEF ParseKey
  <1>2. /\ Running /\ stack # << >> /\ stack[Len(stack)].id = "d"
        /\ data' = data /\ outcome' = outcome /\ result' = result
    BY DEF ParseKey, InLoop, InDict, Top, Last
  <1>3. s.next \in 1 .. Len(data) + 1
    BY Facts, StringEnds
  <1> DEFINE n == Len(stack)
             f == [stack[n] EXCEPT !.key = <<s.text>>]
  <1>4. n \in 1 .. Len(stack) /\ Frame(stack[n])
    <2>1. n \in 1 .. Len(stack)
      BY <1>2, Facts, FramesPopped
    <2>2. QED
      BY <2>1, Facts, FramesLen DEF Frames
  <1>5. Frame(f)
    BY <1>2, <1>4, KeyIsFrame
  <1>6. stack' = [stack EXCEPT ![n] = f]
    BY <1>1
  <1> HIDE DEF n, f
  <1>7. Frames(stack') /\ Len(stack') = Len(stack)
    BY <1>4, <1>5, <1>6, Facts, FramesChanged
  <1>8. QED
    BY <1>1, <1>2, <1>3, <1>7, Facts, InvNext DEF Running

LEMMA CloseKeeps ==
  ASSUME ParserInv, Close
  PROVE  ParserInv'
  <1> DEFINE v == IF InDict THEN Dict(Top.values) ELSE List(Top.values)
  <1>1. /\ Running /\ stack # << >> /\ pos <= Len(data)
        /\ Return(v, Front(stack)) /\ pos' = pos + 1 /\ data' = data
    BY DEF Close, InLoop, AtEnd
  <1> HIDE DEF v
  <1>2. Frames(Front(stack)) /\ Len(Front(stack)) = Len(stack) - 1
    BY <1>1, Facts, FramesPopped
  <1>3. QED
    BY <1>1, <1>2, Facts, ReturnKeepsShape, InvNext DEF Running

LEMMA ThrowKeeps ==
  ASSUME ParserInv, Throw
  PROVE  ParserInv'
  <1>1. Running
    BY DEF Throw, Malformed, Entered, Dispatch, InLoop
  <1>2. outcome' = "thrown" /\ UNCHANGED <<data, pos, stack, result>>
    BY DEF Throw
  <1>3. QED
    BY <1>1, <1>2, Facts, InvNext

LEMMA InvKeeps ==
  ASSUME ParserInv, [ParserNext]_parserVars
  PROVE  ParserInv'
  <1>1. CASE ParseInt
    BY <1>1, ParseIntKeeps
  <1>2. CASE ParseString
    BY <1>2, ParseStringKeeps
  <1>3. CASE Open
    BY <1>3, OpenKeeps
  <1>4. CASE ParseKey
    BY <1>4, ParseKeyKeeps
  <1>5. CASE Close
    BY <1>5, CloseKeeps
  <1>6. CASE Throw
    BY <1>6, ThrowKeeps
  <1>7. CASE UNCHANGED parserVars
    BY <1>7 DEF parserVars, ParserInv, ParserShape, ParserTypeOK
  <1>8. QED
    BY <1>1, <1>2, <1>3, <1>4, <1>5, <1>6, <1>7 DEF ParserNext

\* The parser's types: the position stays in the text or one behind it, no
\* more than MAX_RECURSION_DEPTH + 1 containers are open, and parse() has a
\* value exactly when it has returned.
THEOREM ParserTypeCorrect == ParserSpec => []ParserTypeOK
  <1>1. ParserInit => ParserInv
    BY InitShape
  <1>2. ParserInv /\ [ParserNext]_parserVars => ParserInv'
    BY InvKeeps
  <1>3. ParserInv => ParserTypeOK
    BY DEF ParserInv
  <1>4. QED
    BY <1>1, <1>2, <1>3, PTL DEF ParserSpec

-----------------------------------------------------------------------------
(* Scalars in the text *)

\* What stands in a text that is long enough is a part of it.
LEMMA StandsWhole ==
  ASSUME data \in Seq(Byte), NEW p \in Nat \ {0}, NEW t \in Seq(Byte), Stands(data, p, t),
         NEW e, e = p + Len(t), e - 1 <= Len(data)
  PROVE  SubSeq(data, p, e - 1) = t
  <1> DEFINE u == SubSeq(data, p, e - 1)
  <1>1. /\ Len(t) \in Nat /\ u \in Seq(Byte) /\ Len(u) = Len(t)
        /\ \A i \in 1 .. Len(t) : u[i] = data[p + i - 1]
    OBVIOUS
  <1>2. \A i \in 1 .. Len(t) : u[i] = t[i]
    BY <1>1 DEF Stands
  <1> HIDE DEF u
  <1>3. u = t
    BY <1>1, <1>2
  <1>4. QED
    BY <1>3 DEF u

\* The first c is the one behind t.
LEMMA FindsTheEnd ==
  ASSUME data \in Seq(Byte), NEW p \in Nat \ {0}, NEW t \in Seq(Byte), NEW c,
         \A i \in 1 .. Len(t) : t[i] # c,
         Stands(data, p, t), Stands(data, p + Len(t), <<c>>)
  PROVE  /\ \A e \in Find(c, p) : e = p + Len(t) /\ SubSeq(data, p, e - 1) = t
         /\ p + Len(t) <= Len(data) => p + Len(t) \in Find(c, p)
  <1> DEFINE q == p + Len(t)
  <1>1. Len(t) \in Nat /\ Len(data) \in Nat /\ q \in Nat
    OBVIOUS
  <1>2. q <= Len(data) => data[q] = c
    <2> DEFINE y == <<c>>
    <2>1. Stands(data, q, y) /\ Len(y) = 1 /\ y[1] = c
      OBVIOUS
    <2> HIDE DEF q, y
    <2>2. QED
      BY <1>1, <2>1, StandsFirst
  <1>3. \A e \in p .. Len(data) : e < q => data[e] # c
    <2> TAKE e \in p .. Len(data)
    <2> HAVE e < q
    <2> DEFINE j == e - p + 1
    <2>1. j \in 1 .. Len(t) /\ p + j - 1 = e /\ e <= Len(data)
      BY <1>1
    <2> HIDE DEF j, q
    <2>2. data[p + j - 1] = t[j]
      BY <2>1 DEF Stands
    <2>3. QED
      BY <2>1, <2>2
  <1>4. ASSUME NEW e \in Find(c, p)
        PROVE  e = q
    <2>1. e \in p .. Len(data) /\ data[e] = c
      BY DEF Find
    <2>2. ~(e < q)
      BY <1>3, <2>1
    <2>3. q \in p .. Len(data) /\ data[q] = c => e <= q
      BY DEF Find
    <2> HIDE DEF q
    <2>4. q >= p
      BY <1>1 DEF q
    <2>5. QED
      BY <1>1, <1>2, <2>1, <2>2, <2>3, <2>4
  <1>5. ASSUME NEW e \in Find(c, p)
        PROVE  SubSeq(data, p, e - 1) = t
    <2>1. e = q /\ e - 1 <= Len(data)
      BY <1>1, <1>4 DEF Find
    <2>2. QED
      BY <2>1, StandsWhole
  <1>6. ASSUME q <= Len(data)
        PROVE  q \in Find(c, p)
    <2>1. q \in p .. Len(data) /\ data[q] = c
      BY <1>1, <1>2, <1>6
    <2> HIDE DEF q
    <2>2. \A j \in p .. Len(data) : data[j] = c => q <= j
      BY <1>1, <1>3
    <2>3. QED
      BY <2>1, <2>2 DEF Find
  <1>7. QED
    BY <1>4, <1>5, <1>6

\* The integer that stands at p is the one that is read, if it is there.
LEMMA IntegerRead ==
  ASSUME data \in Seq(Byte), NEW p \in Nat \ {0}, NEW n \in Int, InRange(n),
         Stands(data, p, <<"i">> \o ToText(n) \o <<"e">>)
  PROVE  /\ Len(<<"i">> \o ToText(n) \o <<"e">>) = Len(ToText(n)) + 2
         /\ \A r \in IntAt(p) : r.int = n /\ r.next = p + Len(ToText(n)) + 2
         /\ p + Len(ToText(n)) + 1 <= Len(data) => IntAt(p) # {}
  <1> DEFINE x == ToText(n)
             q == p + 1 + Len(x)
  <1>1. /\ x \in Seq(Byte) /\ \A i \in 1 .. Len(x) : x[i] # "e"
        /\ IsValidBencodeInt(x) /\ IntValue(x) = n
    BY ToTextFacts
  <1> HIDE DEF x
  <1>2. <<"i">> \in Seq(Byte) /\ <<"e">> \in Seq(Byte) /\ Len(<<"i">>) = 1
        /\ Len(<<"i">> \o x \o <<"e">>) = Len(x) + 2
    BY <1>1, SyntaxBytes
  <1>3. /\ Stands(data, p, <<"i">> \o x)
        /\ Stands(data, p + Len(<<"i">> \o x), <<"e">>)
    <2> DEFINE ix == <<"i">> \o x
    <2>1. ix \in Seq(Byte) /\ Len(data) \in Nat /\ p \in Nat
      BY <1>1, <1>2
    <2>2. Stands(data, p, ix \o <<"e">>)
      BY DEF x
    <2> HIDE DEF ix
    <2>3. Stands(data, p, ix) /\ Stands(data, p + Len(ix), <<"e">>)
      BY <1>2, <2>1, <2>2, StandsConcat
    <2>4. QED
      BY <2>3 DEF ix
  <1>4. Stands(data, p + 1, x) /\ Stands(data, q, <<"e">>)
    <2>1. Len(<<"i">> \o x) = 1 + Len(x) /\ p + (1 + Len(x)) = q
      BY <1>1
    <2> DEFINE i == <<"i">>
    <2>2. i \in Seq(Byte) /\ Len(i) = 1 /\ Stands(data, p, i \o x) /\ Len(data) \in Nat
      BY <1>2, <1>3
    <2> HIDE DEF i
    <2>3. Stands(data, p + 1, x)
      BY <1>1, <2>2, StandsConcat
    <2>4. QED
      BY <1>3, <2>1, <2>3
  <1>5. /\ \A e \in Find("e", p + 1) : e = q /\ SubSeq(data, p + 1, e - 1) = x
        /\ q <= Len(data) => q \in Find("e", p + 1)
    <2>1. p + 1 \in Nat \ {0} /\ q = (p + 1) + Len(x)
      BY <1>1
    <2>2. QED
      BY <1>1, <1>4, <2>1, FindsTheEnd
  <1>6. ASSUME NEW r \in IntAt(p)
        PROVE  r.int = n /\ r.next = p + Len(x) + 2
    <2>1. PICK e \in Find("e", p + 1) :
            r.int = IntValue(SubSeq(data, p + 1, e - 1)) /\ r.next = e + 1
      BY DEF IntAt
    <2>2. e = q /\ SubSeq(data, p + 1, e - 1) = x
      BY <1>5
    <2>3. r.int = IntValue(x) /\ r.next = q + 1
      BY <2>1, <2>2
    <2>4. QED
      BY <1>1, <2>3
  <1>7. ASSUME p + Len(x) + 1 <= Len(data)
        PROVE  IntAt(p) # {}
    <2>1. q \in Find("e", p + 1) /\ SubSeq(data, p + 1, q - 1) = x
      BY <1>1, <1>5, <1>7
    <2> HIDE DEF q
    <2>2. QED
      BY <1>1, <2>1 DEF IntAt
  <1>8. QED
    BY <1>2, <1>6, <1>7 DEF x

\* The string that stands at p is the one that is read, if it is there.
LEMMA StringRead ==
  ASSUME data \in Seq(Byte), NEW p \in Nat \ {0}, NEW s \in Seq(Byte),
         Stands(data, p, EncodeString(s)), p + Len(EncodeString(s)) <= MaxSize + 1
  PROVE  /\ \A r \in StringAt(p) : r.text = s /\ r.next = p + Len(EncodeString(s))
         /\ p + Len(EncodeString(s)) - 1 <= Len(data) => StringAt(p) # {}
  <1> DEFINE x == ToText(Len(s))
             q == p + Len(x)
  <1>1. /\ Len(s) \in Nat /\ Len(data) \in Nat /\ x \in Seq(Byte) /\ x # << >> /\ q \in Nat
        /\ \A i \in 1 .. Len(x) : x[i] # ":"
        /\ Len(x) >= 1 /\ \A i \in 1 .. Len(x) : IsDigit(x[i])
        /\ Number(x) = Len(s)
    <2>1. Len(s) \in Int /\ Len(s) >= 0 /\ Len(data) \in Nat
      OBVIOUS
    <2>2. Numeral(x, Len(s)) /\ \A i \in 1 .. Len(x) : x[i] # ":"
      BY <2>1, ToTextFacts
    <2> HIDE DEF x
    <2>3. x \in Seq(Byte) /\ Len(x) >= 1 /\ \A i \in 1 .. Len(x) : IsDigit(x[i])
      BY <2>2 DEF Numeral
    <2>4. QED
      BY <2>1, <2>2, <2>3 DEF Numeral
  <1>2. Len(EncodeString(s)) = Len(x) + 1 + Len(s)
    BY EncodeStringFacts
  <1>3. Stands(data, p, x) /\ Stands(data, q, <<":">>) /\ Stands(data, q + 1, s)
    <2> HIDE DEF x
    <2>1. <<":">> \in Seq(Byte) /\ Len(<<":">>) = 1 /\ x \o <<":">> \in Seq(Byte)
          /\ Len(x \o <<":">>) = Len(x) + 1
      BY <1>1, SyntaxBytes
    <2>2. Stands(data, p, x \o <<":">>) /\ Stands(data, p + (Len(x) + 1), s)
      BY <1>1, <2>1, StandsConcat DEF EncodeString, x
    <2>3. Stands(data, p, x) /\ Stands(data, q, <<":">>)
      BY <1>1, <2>1, <2>2, StandsConcat
    <2>4. p + (Len(x) + 1) = q + 1
      BY <1>1
    <2>5. QED
      BY <2>2, <2>3, <2>4
  <1>4. /\ \A c \in Find(":", p) : c = q /\ SubSeq(data, p, c - 1) = x
        /\ q <= Len(data) => q \in Find(":", p)
    <2> HIDE DEF x
    <2>1. QED
      BY <1>1, <1>3, FindsTheEnd
  <1> HIDE DEF x, q
  <1>5. StringEnd(q, Len(s)) = q + Len(s) /\ Stoul(x) = {Len(s)}
    <2>1. q + Len(s) <= MaxSize /\ Len(x) \in Nat /\ q >= 1
      BY <1>1, <1>2, ParserAssumption DEF q
    <2>2. q + Len(s) \in 0 .. MaxSize /\ Len(s) \in 0 .. MaxSize
      BY <1>1, <2>1, ParserAssumption
    <2>3. StringEnd(q, Len(s)) = q + Len(s)
      BY <1>1, <2>2, SizeOfSum DEF StringEnd
    <2>4. QED
      BY <1>1, <2>2, <2>3, NumeralRead
  <1>6. Fits(q, Len(s)) => SubStr(q + 1, Len(s)) = s
    <2> HAVE Fits(q, Len(s))
    <2>1. q + 1 + Len(s) - 1 <= Len(data)
      BY <1>1, <1>5 DEF Fits
    <2>2. SubStr(q + 1, Len(s)) = SubSeq(data, q + 1, q + 1 + Len(s) - 1)
      BY <2>1 DEF SubStr
    <2> DEFINE f == q + 1
               e == f + Len(s)
    <2>3. f \in Nat \ {0} /\ e = f + Len(s) /\ e - 1 <= Len(data) /\ Stands(data, f, s)
      BY <1>1, <1>3, <2>1
    <2>4. SubStr(q + 1, Len(s)) = SubSeq(data, f, e - 1)
      BY <1>1, <2>2
    <2> HIDE DEF f, e
    <2>5. QED
      BY <2>3, <2>4, StandsWhole
  <1>7. ASSUME NEW r \in StringAt(p)
        PROVE  r.text = s /\ r.next = p + Len(EncodeString(s))
    <2>1. PICK c \in Find(":", p) :
            \E n \in Stoul(SubSeq(data, p, c - 1)) :
              Fits(c, n) /\ r = [text |-> SubStr(c + 1, n), next |-> StringEnd(c, n) + 1]
      BY DEF StringAt
    <2>2. PICK n \in Stoul(SubSeq(data, p, c - 1)) :
              Fits(c, n) /\ r = [text |-> SubStr(c + 1, n), next |-> StringEnd(c, n) + 1]
      BY <2>1
    <2>3. c = q /\ n = Len(s)
      BY <1>4, <1>5, <2>2
    <2>4. r.text = s /\ r.next = q + Len(s) + 1
      BY <1>5, <1>6, <2>2, <2>3
    <2>5. QED
      BY <1>1, <1>2, <2>4 DEF q
  <1>8. ASSUME p + Len(EncodeString(s)) - 1 <= Len(data)
        PROVE  StringAt(p) # {}
    <2>1. q <= Len(data) /\ q + Len(s) <= Len(data)
      BY <1>1, <1>2, <1>8 DEF q
    <2>2. q \in Find(":", p) /\ SubSeq(data, p, q - 1) = x
      BY <1>4, <2>1
    <2>3. Fits(q, Len(s))
      BY <1>5, <2>1 DEF Fits
    <2>4. Len(s) \in {k \in Stoul(SubSeq(data, p, q - 1)) : Fits(q, k)}
      BY <1>5, <2>2, <2>3
    <2> DEFINE Strings(c) ==
                 {[text |-> SubStr(c + 1, n), next |-> StringEnd(c, n) + 1] :
                    n \in {k \in Stoul(SubSeq(data, p, c - 1)) : Fits(c, k)}}
    <2>5. StringAt(p) = UNION {Strings(c) : c \in Find(":", p)}
      BY Zenon DEF StringAt
    <2>6. Strings(q) # {}
      BY <2>4
    <2> HIDE DEF Strings
    <2>7. QED
      BY <2>2, <2>5, <2>6
  <1>9. QED
    BY <1>7, <1>8

\* An encoding is no longer than a size_t can say.
LEMMA SizeOfEncoding ==
  ASSUME NEW v \in Values, NEW p \in Nat, NEW n \in Nat, p + n <= Len(Encode[v]) + 1
  PROVE  p + n <= MaxSize + 1
  BY EncodeFacts, ParserAssumption

-----------------------------------------------------------------------------
(* A run of the parser over the encoding of a value *)

\* The frame of a container with its first k elements.
FrameOf(w, k, key) ==
  IF w.type = "list" THEN [id |-> "l", values |-> SubSeq(w.items, 1, k)]
  ELSE [id |-> "d",
        values |-> [x \in {KeysOf(w)[j] : j \in 1 .. k} |-> w.map[x]],
        key |-> key]

\* The key parseDict has read before element j.
KeyRead(w, j) == IF w.type = "list" THEN << >> ELSE <<KeysOf(w)[j]>>

\* Frame i has the first k elements of w, none of them too deep.
Holds(f, i, w, k, key) ==
  /\ Container(w) /\ k \in 0 .. Count(w)
  /\ f = FrameOf(w, k, key)
  /\ \A j \in 1 .. k : Depth[Item(w, j)] + i <= MaxDepth

\* u at q is the element that is parsed for frame i, where w at p is.
Inside(f, i, w, p, u, q) ==
  \E k \in Nat, j \in Nat :
    /\ j = k + 1 /\ j <= Count(w)
    /\ Holds(f, i, w, k, KeyRead(w, j))
    /\ u = Item(w, j)
    /\ q = p + Offset(w, k) + Len(KeyText(w, j))

\* u stands at q in the text of v, inside i - 1 containers.
Placed(d, v, i, u, q) ==
  /\ u \in Values /\ q \in Nat \ {0}
  /\ Stands(d, q, Encode[u])
  /\ q + Len(Encode[u]) <= Len(Encode[v]) + 1
  /\ Depth[u] + i <= Depth[v] + 1

\* The value vs[i] at ps[i] is what frame i is for, and the value behind the
\* last of them is the next to be returned to the frames.
Awaits(d, v, frames, vs, ps) ==
  /\ vs \in [Nat -> Values] /\ ps \in [Nat -> Nat]
  /\ vs[1] = v /\ ps[1] = 1
  /\ \A i \in 1 .. Len(frames) + 1 : Placed(d, v, i, vs[i], ps[i])
  /\ \A i \in 1 .. Len(frames) : Inside(frames[i], i, vs[i], ps[i], vs[i + 1], ps[i + 1])

\* parse() is called for a value of v.
AtValue(d, v, p, st) ==
  \E vs, ps :
    /\ Awaits(d, v, st, vs, ps)
    /\ p = ps[Len(st) + 1]

\* The loop of the innermost container is at its condition.
AtLoop(d, v, p, st) ==
  \E vs, ps :
    /\ st # << >>
    /\ Awaits(d, v, Front(st), vs, ps)
    /\ \E k \in Nat :
         /\ Holds(Last(st), Len(st), vs[Len(st)], k, << >>)
         /\ p = ps[Len(st)] + Offset(vs[Len(st)], k)

\* Between the calls for the elements of a list there is no state.
KeyIsRead(st) == st # << >> => Last(st).id = "d" /\ Last(st).key # << >>

\* The text starts with the encoding of v, as far as it goes.
Parses(d, v, p, st, out, res) ==
  /\ out = "running" => (AtValue(d, v, p, st) /\ KeyIsRead(st)) \/ AtLoop(d, v, p, st)
  /\ out = "returned" => res = <<v>> /\ Len(Encode[v]) <= Len(d) /\ Depth[v] <= MaxDepth
  /\ out = "thrown" => Len(d) < Len(Encode[v]) \/ Depth[v] > MaxDepth

-----------------------------------------------------------------------------
(* Frames *)

\* The frame of a container none of whose elements is read.
LEMMA OpenedFrame ==
  ASSUME NEW w \in Values, Container(w)
  PROVE  FrameOf(w, 0, << >>) = IF w.type = "list" THEN ListFrame ELSE DictFrame
  <1>1. CASE w.type = "list"
    <2>1. SubSeq(w.items, 1, 0) = << >>
      BY SubSeqEmpty
    <2>2. QED
      BY <1>1, <2>1, Zenon DEF FrameOf, ListFrame
  <1>2. CASE w.type = "dict"
    <2> DEFINE m == [x \in {KeysOf(w)[j] : j \in 1 .. 0} |-> w.map[x]]
    <2>1. m = << >>
      <3>1. {KeysOf(w)[j] : j \in 1 .. 0} = {}
        OBVIOUS
      <3>2. m = [x \in {} |-> w.map[x]]
        BY <3>1, Zenon
      <3>3. [x \in {} |-> w.map[x]] = << >>
        OBVIOUS
      <3>4. QED
        BY <3>2, <3>3, Zenon
    <2>2. w.type # "list" /\ FrameOf(w, 0, << >>) = [id |-> "d", values |-> m, key |-> << >>]
      BY <1>2, Zenon DEF FrameOf
    <2> HIDE DEF m
    <2>3. QED
      BY <2>1, <2>2 DEF DictFrame
  <1>3. QED
    BY <1>1, <1>2 DEF Container

\* An element more.
LEMMA FrameGrows ==
  ASSUME NEW w \in Values, Container(w), NEW k \in Nat, NEW j \in Nat, j = k + 1, j <= Count(w)
  PROVE  WithValue(FrameOf(w, k, KeyRead(w, j)), Item(w, j)) = FrameOf(w, j, << >>)
  <1>1. CASE w.type = "list"
    <2> DEFINE s == w.items
    <2>1. s \in Seq(Values) /\ Item(w, j) = s[j] /\ j <= Len(s) /\ Len(s) \in Nat
      <3>1. Count(w) = Len(w.items) /\ Len(w.items) \in Nat /\ j \in 1 .. Count(w)
        BY <1>1, ListFacts
      <3>2. Item(w, j) = w.items[j]
        BY <1>1, <3>1, ListFacts
      <3>3. QED
        BY <1>1, <3>1, <3>2, Variants
    <2>2. SubSeq(s, 1, j) = Append(SubSeq(s, 1, k), s[j])
      <3> HIDE DEF s
      <3>1. k \in 0 .. Len(s) - 1
        BY <2>1
      <3>2. QED
        BY <2>1, <3>1, OneMore
    <2>3. FrameOf(w, k, KeyRead(w, j)) = [id |-> "l", values |-> SubSeq(s, 1, k)]
          /\ FrameOf(w, j, << >>) = [id |-> "l", values |-> SubSeq(s, 1, j)]
      BY <1>1, Zenon DEF FrameOf
    <2> DEFINE a == SubSeq(s, 1, k)
               b == SubSeq(s, 1, j)
               x == Item(w, j)
               f == FrameOf(w, k, KeyRead(w, j))
               g == FrameOf(w, j, << >>)
    <2>4. b = Append(a, x) /\ f = [id |-> "l", values |-> a] /\ g = [id |-> "l", values |-> b]
      BY <2>1, <2>2, <2>3
    <2> HIDE DEF a, b, x, f, g
    <2>5. WithValue(f, x) = [id |-> "l", values |-> Append(a, x)]
      <3>1. f = [id |-> "l", values |-> a]
        BY <2>4
      <3>2. QED
        BY <3>1 DEF WithValue
    <2>6. QED
      BY <2>4, <2>5 DEF x, f, g
  <1>2. CASE w.type = "dict"
    <2> DEFINE key == KeysOf(w)[j]
               before == {KeysOf(w)[i] : i \in 1 .. k}
               now == {KeysOf(w)[i] : i \in 1 .. j}
               a == [x \in before |-> w.map[x]]
               b == [x \in now |-> w.map[x]]
               x == Item(w, j)
               f == FrameOf(w, k, KeyRead(w, j))
               g == FrameOf(w, j, << >>)
    <2>1. x = w.map[key]
      BY <1>2 DEF Item
    <2>2. now = before \cup {key}
      <3>1. 1 .. j = 1 .. k \cup {j}
        OBVIOUS
      <3>2. QED
        BY <3>1
    <2>3. Emplace(a, key, x) = b
      <3>1. DOMAIN a = before
        OBVIOUS
      <3>2. Emplace(a, key, x) = [y \in before \cup {key} |-> IF y \in before THEN a[y] ELSE x]
        BY <3>1, Zenon DEF Emplace
      <3> HIDE DEF before, now, key, x
      <3>3. \A y \in before \cup {key} : (IF y \in before THEN a[y] ELSE x) = w.map[y]
        BY <2>1
      <3>4. QED
        BY <2>2, <3>2, <3>3
    <2>4. /\ w.type # "list"
          /\ f = [id |-> "d", values |-> a, key |-> <<key>>]
          /\ g = [id |-> "d", values |-> b, key |-> << >>]
      BY <1>2, Zenon DEF FrameOf, KeyRead
    <2> HIDE DEF a, b, key, x, f, g, before, now
    <2>5. WithValue(f, x) = [f EXCEPT !.values = b, !.key = << >>]
      <3>1. f.id = "d" /\ f.values = a /\ f.key = <<key>> /\ <<key>>[1] = key
        BY <2>4
      <3>2. WithValue(f, x) = [f EXCEPT !.values = Emplace(@, f.key[1], x), !.key = << >>]
        BY <3>1 DEF WithValue
      <3>3. QED
        BY <2>3, <3>1, <3>2
    <2>6. WithValue(f, x) = g
      BY <2>4, <2>5
    <2>7. QED
      BY <2>6 DEF x, f, g
  <1>3. QED
    BY <1>1, <1>2 DEF Container

\* All elements: the value that parseList or parseDict returns.
LEMMA FrameFull ==
  ASSUME NEW w \in Values, Container(w), NEW f, f = FrameOf(w, Count(w), << >>)
  PROVE  /\ w.type = "list" => f.id = "l" /\ List(f.values) = w
         /\ w.type = "dict" => f.id = "d" /\ Dict(f.values) = w
  <1>1. CASE w.type = "list"
    <2>1. w.items \in Seq(Values) /\ w = List(w.items) /\ Count(w) = Len(w.items)
      BY <1>1, Variants, ListFacts
    <2>2. SubSeq(w.items, 1, Len(w.items)) = w.items
      BY <2>1, SubSeqFull
    <2>3. f = [id |-> "l", values |-> w.items]
      BY <1>1, <2>1, <2>2, Zenon DEF FrameOf
    <2>4. f.id = "l" /\ f.values = w.items
      BY <2>3
    <2>5. QED
      BY <1>1, <2>1, <2>4
  <1>2. CASE w.type = "dict"
    <2> DEFINE D == {KeysOf(w)[j] : j \in 1 .. Count(w)}
    <2>1. w = Dict(w.map) /\ w.map \in [DOMAIN w.map -> Values] /\ D = DOMAIN w.map
      <3>1. \A j \in 1 .. Count(w) : KeysOf(w)[j] \in DOMAIN w.map
        BY <1>2, DictFacts
      <3>2. \A x \in DOMAIN w.map : \E j \in 1 .. Count(w) : KeysOf(w)[j] = x
        BY <1>2, DictFacts
      <3>3. D = DOMAIN w.map
        BY <3>1, <3>2
      <3>4. QED
        BY <1>2, <3>3, Variants
    <2>2. f = [id |-> "d", values |-> [x \in D |-> w.map[x]], key |-> << >>]
      BY <1>2, Zenon DEF FrameOf
    <2> HIDE DEF D
    <2>3. [x \in D |-> w.map[x]] = w.map
      BY <2>1
    <2>4. f.id = "d" /\ f.values = w.map
      BY <2>2, <2>3
    <2>5. QED
      BY <1>2, <2>1, <2>4
  <1>3. QED
    BY <1>1, <1>2 DEF Container

\* The frame says what kind of container it is for, and which key was read.
LEMMA FrameKind ==
  ASSUME NEW w, Container(w), NEW k, NEW key
  PROVE  /\ w.type = "list" => FrameOf(w, k, key).id = "l"
         /\ w.type = "dict" => FrameOf(w, k, key).id = "d" /\ FrameOf(w, k, key).key = key
  BY DEF FrameOf

-----------------------------------------------------------------------------
(* Steps along the path *)

\* The frames below the innermost one.
LEMMA FrontFacts ==
  ASSUME NEW s, Frames(s), s # << >>
  PROVE  /\ Len(s) \in Nat \ {0} /\ Len(Front(s)) = Len(s) - 1 /\ Frames(Front(s))
         /\ \A i \in 1 .. Len(s) - 1 : Front(s)[i] = s[i]
         /\ Last(s) = s[Len(s)]
  <1>1. Len(s) \in Nat /\ Frames(Front(s)) /\ Len(Front(s)) = Len(s) - 1 /\ Len(s) # 0
    BY FramesLen, FramesPopped
  <1> DEFINE S == {s[i] : i \in DOMAIN s}
  <1>2. s \in Seq(S)
    BY DEF Frames
  <1> HIDE DEF S
  <1>3. \A i \in 1 .. Len(s) - 1 : Front(s)[i] = s[i]
    BY <1>1, <1>2 DEF Front
  <1>4. Last(s) = s[Len(s)]
    BY DEF Last
  <1>5. QED
    BY <1>1, <1>3, <1>4

\* Fewer frames.
LEMMA AwaitsShorter ==
  ASSUME NEW d, NEW v, NEW frames, NEW vs, NEW ps, Awaits(d, v, frames, vs, ps),
         Len(frames) \in Nat, NEW g, Len(g) \in Nat, Len(g) <= Len(frames),
         \A i \in 1 .. Len(g) : g[i] = frames[i]
  PROVE  Awaits(d, v, g, vs, ps)
  <1>1. \A i \in 1 .. Len(g) + 1 : i \in 1 .. Len(frames) + 1
    OBVIOUS
  <1>2. \A i \in 1 .. Len(g) : i \in 1 .. Len(frames)
    OBVIOUS
  <1>3. \A i \in 1 .. Len(g) + 1 : Placed(d, v, i, vs[i], ps[i])
    BY <1>1 DEF Awaits
  <1>4. \A i \in 1 .. Len(g) : Inside(g[i], i, vs[i], ps[i], vs[i + 1], ps[i + 1])
    BY <1>2 DEF Awaits
  <1>5. QED
    BY <1>3, <1>4 DEF Awaits

\* At the start no frame is open.
LEMMA PathStarts ==
  ASSUME NEW d, NEW v \in Values, Stands(d, 1, Encode[v])
  PROVE  AtValue(d, v, 1, << >>) /\ KeyIsRead(<< >>)
  <1> DEFINE vs == [n \in Nat |-> v]
             ps == [n \in Nat |-> 1]
  <1>1. Len(<< >>) = 0
    OBVIOUS
  <1>2. Depth[v] \in Nat /\ Len(Encode[v]) \in Nat
    BY DepthAssumption, EncodeFacts
  <1>3. Placed(d, v, 1, v, 1)
    BY <1>2 DEF Placed
  <1>4. /\ vs \in [Nat -> Values] /\ ps \in [Nat -> Nat]
        /\ vs[1] = v /\ ps[1] = 1
    OBVIOUS
  <1> HIDE DEF vs, ps
  <1>5. \A i \in 1 .. Len(<< >>) + 1 : Placed(d, v, i, vs[i], ps[i])
    BY <1>1, <1>3, <1>4
  <1>6. \A i \in 1 .. Len(<< >>) : i # i
    BY <1>1
  <1>7. Awaits(d, v, << >>, vs, ps)
    BY <1>4, <1>5, <1>6 DEF Awaits
  <1>8. 1 = ps[Len(<< >>) + 1]
    BY <1>1, <1>4
  <1>9. QED
    BY <1>7, <1>8 DEF AtValue, KeyIsRead

\* What the path says of a value on it.
LEMMA PlacedAt ==
  ASSUME NEW d, NEW v \in Values, NEW frames, NEW vs, NEW ps, Awaits(d, v, frames, vs, ps),
         NEW i \in 1 .. Len(frames) + 1
  PROVE  /\ vs[i] \in Values /\ ps[i] \in Nat \ {0} /\ Stands(d, ps[i], Encode[vs[i]])
         /\ ps[i] + Len(Encode[vs[i]]) <= Len(Encode[v]) + 1
         /\ Depth[vs[i]] + i <= Depth[v] + 1
         /\ Len(Encode[vs[i]]) \in Nat /\ Len(Encode[v]) \in Nat
         /\ Depth[vs[i]] \in Nat /\ Depth[v] \in Nat
  <1>1. Placed(d, v, i, vs[i], ps[i])
    BY DEF Awaits
  <1>2. vs[i] \in Values
    BY <1>1 DEF Placed
  <1>3. Len(Encode[vs[i]]) \in Nat /\ Len(Encode[v]) \in Nat
    BY <1>2, EncodeFacts
  <1>4. QED
    BY <1>1, <1>2, <1>3, DepthAssumption DEF Placed

\* Part of a value that stands in the text stands there too.
LEMMA ElementPlaced ==
  ASSUME NEW d, Len(d) \in Nat, NEW v \in Values, NEW n \in Nat, NEW w, NEW p,
         Placed(d, v, n, w, p), Container(w),
         NEW k \in Nat, NEW j \in Nat, j = k + 1, j <= Count(w), NEW m, m = n + 1
  PROVE  Placed(d, v, m, Item(w, j), p + Offset(w, k) + Len(KeyText(w, j)))
  <1> DEFINE a == Offset(w, k)
             b == Offset(w, j)
             c == Len(KeyText(w, j))
             u == Item(w, j)
             x == Len(Encode[u])
             y == Len(Encode[w])
             z == Len(Encode[v])
  <1>1. w \in Values /\ p \in Nat /\ p # 0 /\ Stands(d, p, Encode[w])
        /\ p + y <= z + 1 /\ Depth[w] + n <= Depth[v] + 1
    BY DEF Placed
  <1>2. y \in Nat /\ z \in Nat /\ Depth[w] \in Nat /\ Depth[v] \in Nat
    BY <1>1, EncodeFacts, DepthAssumption
  <1>3. Count(w) \in Nat
    BY <1>1, ContainerFacts
  <1>4. /\ k \in 0 .. Count(w) - 1 /\ k \in 0 .. Count(w)
        /\ j \in 0 .. Count(w) /\ j \in 1 .. Count(w)
    BY <1>3
  <1>5. c \in Nat /\ u \in Values /\ Stands(d, p + a + c, Encode[u]) /\ b = a + c + x
    BY <1>1, <1>4, PartStands
  <1>6. a \in Nat /\ b \in Nat /\ b + 1 <= y
    BY <1>1, <1>4, Offsets
  <1>7. Depth[u] \in Nat /\ Depth[u] < Depth[w] /\ x \in Nat
    <2>1. u \in Elements(w)
      BY <1>1, <1>4, ContainerFacts
    <2>2. QED
      BY <1>1, <1>5, <2>1, DepthAssumption, EncodeFacts
  <1> DEFINE q == p + a + c
  <1> HIDE DEF a, b, c, x, y, z, u
  <1>8. q \in Nat \ {0} /\ q + x <= z + 1
    <2>1. p \in Nat /\ p # 0 /\ p + y <= z + 1
      BY <1>1
    <2>2. c \in Nat /\ b = a + c + x /\ x \in Nat
      BY <1>5, <1>7
    <2>3. q = p + a + c
      OBVIOUS
    <2> HIDE DEF q
    <2>4. QED
      BY <1>2, <1>6, <2>1, <2>2, <2>3
  <1>9. Depth[u] + m <= Depth[v] + 1
    BY <1>1, <1>2, <1>7
  <1>10. Stands(d, q, Encode[u])
    BY <1>5
  <1> HIDE DEF q
  <1>11. Placed(d, v, m, u, q)
    BY <1>5, <1>8, <1>9, <1>10 DEF Placed, x, z
  <1>12. QED
    BY <1>11 DEF q, a, c, u

\* A path with another value at m = n + 1.
Extends(vs2, ps2, vs, ps, n, m, u, q) ==
  /\ vs2 \in [Nat -> Values] /\ ps2 \in [Nat -> Nat]
  /\ vs2[m] = u /\ ps2[m] = q
  /\ \A i \in 1 .. n : vs2[i] = vs[i] /\ ps2[i] = ps[i]

LEMMA PathGrows ==
  ASSUME NEW vs \in [Nat -> Values], NEW ps \in [Nat -> Nat], NEW n \in Nat,
         NEW m, m = n + 1, NEW u \in Values, NEW q \in Nat
  PROVE  \E vs2, ps2 : Extends(vs2, ps2, vs, ps, n, m, u, q)
  <1> DEFINE vs2 == [vs EXCEPT ![m] = u]
             ps2 == [ps EXCEPT ![m] = q]
  <1>1. vs2 \in [Nat -> Values] /\ vs2[m] = u /\ \A i \in 1 .. n : vs2[i] = vs[i]
    OBVIOUS
  <1>2. ps2 \in [Nat -> Nat] /\ ps2[m] = q /\ \A i \in 1 .. n : ps2[i] = ps[i]
    OBVIOUS
  <1> HIDE DEF vs2, ps2
  <1>3. Extends(vs2, ps2, vs, ps, n, m, u, q)
    BY <1>1, <1>2, Zenon DEF Extends
  <1>4. QED
    BY <1>3

\* The next element of the innermost container, n deep.
LEMMA NextElement ==
  ASSUME NEW d, Len(d) \in Nat, NEW v \in Values,
         NEW n \in Nat \ {0}, NEW front, Len(front) = n - 1, NEW st, Len(st) = n,
         \A i \in 1 .. n - 1 : st[i] = front[i],
         NEW vs, NEW ps, Awaits(d, v, front, vs, ps),
         NEW k \in Nat, NEW j \in Nat, j = k + 1, j <= Count(vs[n]),
         Holds(st[n], n, vs[n], k, KeyRead(vs[n], j))
  PROVE  AtValue(d, v, ps[n] + Offset(vs[n], k) + Len(KeyText(vs[n], j)), st)
  <1> DEFINE m == n + 1
             w == vs[n]
             p == ps[n]
             u == Item(w, j)
             q == p + Offset(w, k) + Len(KeyText(w, j))
  <1>1. m = n + 1 /\ m # 1 /\ n \in 1 .. Len(front) + 1 /\ 1 \in 1 .. n
    OBVIOUS
  <1>2. Placed(d, v, n, w, p)
    BY <1>1 DEF Awaits
  <1>3. Container(w)
    BY DEF Holds
  <1> HIDE DEF m
  <1>4. Placed(d, v, m, u, q)
    <2> HIDE DEF w, p
    <2>1. j <= Count(w)
      BY DEF w
    <2>2. QED
      BY <1>1, <1>2, <1>3, <2>1, ElementPlaced
  <1>5. Inside(st[n], n, w, p, u, q)
    BY DEF Inside
  <1> HIDE DEF w, p, u, q
  <1>6. u \in Values /\ q \in Nat
    BY <1>4 DEF Placed
  <1>7. vs \in [Nat -> Values] /\ ps \in [Nat -> Nat] /\ vs[1] = v /\ ps[1] = 1
    BY DEF Awaits
  <1>8a. PICK vs2, ps2 : Extends(vs2, ps2, vs, ps, n, m, u, q)
    <2>1. n \in Nat
      OBVIOUS
    <2>2. QED
      BY <1>1, <1>6, <1>7, <2>1, PathGrows
  <1>8. /\ vs2 \in [Nat -> Values] /\ ps2 \in [Nat -> Nat]
        /\ vs2[m] = u /\ ps2[m] = q
        /\ \A i \in 1 .. n : vs2[i] = vs[i] /\ ps2[i] = ps[i]
    BY <1>8a DEF Extends
  <1>9. ASSUME NEW i \in 1 .. n + 1
        PROVE  Placed(d, v, i, vs2[i], ps2[i])
    <2>1. CASE i = m
      BY <1>4, <1>8, <2>1
    <2>2. CASE i # m
      <3>1. i \in 1 .. n /\ i \in 1 .. Len(front) + 1
        BY <1>1, <2>2
      <3>2. Placed(d, v, i, vs[i], ps[i])
        BY <3>1 DEF Awaits
      <3>3. QED
        BY <1>8, <3>1, <3>2
    <2>3. QED
      BY <2>1, <2>2
  <1>10. ASSUME NEW i \in 1 .. n
         PROVE  Inside(st[i], i, vs2[i], ps2[i], vs2[i + 1], ps2[i + 1])
    <2>1. CASE i = n
      <3>1. n \in 1 .. n /\ n + 1 = m
        BY <1>1
      <3>2. vs2[n] = w /\ ps2[n] = p /\ vs2[n + 1] = u /\ ps2[n + 1] = q
        BY <1>8, <3>1 DEF p, w
      <3>3. QED
        BY <1>5, <2>1, <3>2
    <2>2. CASE i # n
      <3>1. i \in 1 .. n - 1 /\ i \in 1 .. Len(front) /\ i \in 1 .. n /\ i + 1 \in 1 .. n
        BY <2>2
      <3>2. Inside(front[i], i, vs[i], ps[i], vs[i + 1], ps[i + 1])
        BY <3>1 DEF Awaits
      <3>3. st[i] = front[i]
        BY <3>1
      <3>4. vs2[i] = vs[i] /\ ps2[i] = ps[i] /\ vs2[i + 1] = vs[i + 1] /\ ps2[i + 1] = ps[i + 1]
        BY <1>8, <3>1
      <3>5. QED
        BY <3>2, <3>3, <3>4
    <2>3. QED
      BY <2>1, <2>2
  <1>11. Awaits(d, v, st, vs2, ps2)
    <2>1. vs2[1] = v /\ ps2[1] = 1
      BY <1>1, <1>7, <1>8
    <2>2. QED
      BY <1>8, <1>9, <1>10, <2>1 DEF Awaits
  <1>12. q = ps2[Len(st) + 1]
    BY <1>1, <1>8
  <1>13. AtValue(d, v, q, st)
    BY <1>11, <1>12 DEF AtValue
  <1>14. QED
    BY <1>13 DEF q, p, w

\* st has f in the place of the innermost frame.
Changed(frames, st, f) ==
  /\ Frames(st) /\ Len(st) = Len(frames) /\ st # << >>
  /\ st[Len(frames)] = f /\ Last(st) = f
  /\ Len(Front(st)) = Len(frames) - 1
  /\ \A i \in 1 .. Len(frames) - 1 : st[i] = frames[i] /\ Front(st)[i] = frames[i]

\* Changing the innermost frame changes no other.
LEMMA FrameReplaced ==
  ASSUME NEW frames, Frames(frames), frames # << >>, NEW f, Frame(f)
  PROVE  Changed(frames, [frames EXCEPT ![Len(frames)] = f], f)
  <1> DEFINE n == Len(frames)
             st == [frames EXCEPT ![n] = f]
  <1>1. n \in Nat \ {0} /\ DOMAIN frames = 1 .. n /\ n \in 1 .. n
    BY FramesLen, FrontFacts
  <1>2. Frames(st) /\ Len(st) = n
    BY <1>1, FramesChanged, Zenon
  <1>3. st[n] = f /\ \A i \in 1 .. n - 1 : st[i] = frames[i]
    <2> HIDE DEF n
    <2>1. \A i \in 1 .. n - 1 : i \in DOMAIN frames /\ i # n
      BY <1>1
    <2>2. n \in DOMAIN frames
      BY <1>1
    <2>3. QED
      BY <2>1, <2>2
  <1> HIDE DEF st
  <1>4. st # << >>
    <2>1. Len(<< >>) = 0
      OBVIOUS
    <2> HIDE DEF n
    <2>2. QED
      BY <1>1, <1>2, <2>1
  <1>5. /\ Len(Front(st)) = Len(st) - 1 /\ Last(st) = st[Len(st)]
        /\ \A i \in 1 .. Len(st) - 1 : Front(st)[i] = st[i]
    BY <1>2, <1>4, FrontFacts
  <1>6. Changed(frames, st, f)
    <2> HIDE DEF n
    <2>1. n = Len(frames)
      BY DEF n
    <2>2. QED
      BY <1>2, <1>3, <1>4, <1>5, <2>1 DEF Changed
  <1>7. QED
    BY <1>6 DEF st

\* A value returned to the innermost of the frames.
LEMMA ElementAdded ==
  ASSUME NEW d, Len(d) \in Nat, NEW v \in Values,
         NEW frames, Frames(frames), NEW n, n = Len(frames), n # 0, NEW m, m = n + 1,
         NEW vs, NEW ps, Awaits(d, v, frames, vs, ps), NEW u, u = vs[m],
         Depth[u] + n <= MaxDepth,
         NEW st, Changed(frames, st, WithValue(frames[n], u)),
         NEW q, q = ps[m] + Len(Encode[u])
  PROVE  AtLoop(d, v, q, st)
  <1>1. n \in Nat \ {0} /\ DOMAIN frames = 1 .. n
    BY FramesLen
  <1>2. /\ Len(st) = n /\ st # << >>
        /\ st[n] = WithValue(frames[n], u) /\ Last(st) = st[n]
        /\ \A i \in 1 .. n - 1 : st[i] = frames[i]
    BY DEF Changed
  <1>4. Awaits(d, v, Front(st), vs, ps)
    <2> DEFINE g == Front(st)
    <2>1. Len(g) = n - 1 /\ Len(frames) = n /\ \A i \in 1 .. n - 1 : g[i] = frames[i]
      BY DEF Changed
    <2> HIDE DEF g
    <2>2. /\ Len(frames) \in Nat /\ Len(g) \in Nat /\ Len(g) <= Len(frames)
          /\ \A i \in 1 .. Len(g) : g[i] = frames[i]
      BY <1>1, <2>1
    <2>3. Awaits(d, v, g, vs, ps)
      BY <2>2, AwaitsShorter
    <2>4. QED
      BY <2>3 DEF g
  <1> DEFINE w == vs[n]
             p == ps[n]
  <1>5. w \in Values /\ p \in Nat \ {0} /\ Stands(d, p, Encode[w])
    <2>1. n \in 1 .. Len(frames) + 1
      BY <1>1
    <2>2. QED
      BY <2>1, PlacedAt
  <1>6. PICK k \in Nat, j \in Nat :
          /\ j = k + 1 /\ j <= Count(w)
          /\ Holds(frames[n], n, w, k, KeyRead(w, j))
          /\ u = Item(w, j)
          /\ ps[m] = p + Offset(w, k) + Len(KeyText(w, j))
    <2>1. n \in 1 .. Len(frames)
      BY <1>1
    <2>2. Inside(frames[n], n, w, p, vs[m], ps[m])
      BY <2>1 DEF Awaits
    <2> HIDE DEF w, p
    <2>3. QED
      BY <2>2 DEF Inside
  <1> HIDE DEF w, p
  <1>7. Container(w) /\ Count(w) \in Nat /\ frames[n] = FrameOf(w, k, KeyRead(w, j))
    BY <1>5, <1>6, ContainerFacts DEF Holds
  <1>8. st[n] = FrameOf(w, j, << >>)
    BY <1>2, <1>5, <1>6, <1>7, FrameGrows
  <1>9. \A i \in 1 .. j : Depth[Item(w, i)] + n <= MaxDepth
    <2> TAKE i \in 1 .. j
    <2>1. CASE i = j
      BY <1>6, <2>1
    <2>2. CASE i # j
      <3>1. i \in 1 .. k
        BY <1>6, <2>2
      <3>2. QED
        BY <1>6, <3>1 DEF Holds
    <2>3. QED
      BY <2>1, <2>2
  <1>10. Holds(st[n], n, w, j, << >>)
    <2>1. j \in 0 .. Count(w)
      BY <1>6, <1>7
    <2>2. QED
      BY <1>7, <1>8, <1>9, <2>1 DEF Holds
  <1>11. q = p + Offset(w, j)
    <2>1. k \in 0 .. Count(w) - 1 /\ k \in 0 .. Count(w) /\ p \in Nat
      BY <1>5, <1>6, <1>7
    <2>2. /\ Len(KeyText(w, j)) \in Nat
          /\ Offset(w, j) = Offset(w, k) + Len(KeyText(w, j)) + Len(Encode[u])
      BY <1>5, <1>6, <1>7, <2>1, PartStands
    <2>3. Offset(w, k) \in Nat
      BY <1>5, <1>7, <2>1, Offsets
    <2>4. Len(Encode[u]) \in Nat
      <3>1. m \in 1 .. Len(frames) + 1
        BY <1>1
      <3>2. QED
        BY <3>1, PlacedAt
    <2> DEFINE a == Offset(w, k)
               b == Offset(w, j)
               c == Len(KeyText(w, j))
               x == Len(Encode[u])
    <2>5. /\ a \in Nat /\ c \in Nat /\ x \in Nat /\ p \in Nat
          /\ b = a + c + x /\ q = (p + a + c) + x
      BY <1>6, <2>1, <2>2, <2>3, <2>4
    <2> HIDE DEF a, b, c, x
    <2>6. q = p + b
      BY <2>5
    <2>7. QED
      BY <2>6 DEF b
  <1>12. /\ Holds(Last(st), Len(st), vs[Len(st)], j, << >>)
         /\ q = ps[Len(st)] + Offset(vs[Len(st)], j)
    BY <1>2, <1>10, <1>11 DEF w, p
  <1>13. QED
    BY <1>2, <1>4, <1>6, <1>12 DEF AtLoop

\* parseList and parseDict up to their loops.
LEMMA ContainerOpened ==
  ASSUME NEW d, Len(d) \in Nat, NEW v \in Values, NEW frames, Frames(frames),
         NEW m, m = Len(frames) + 1,
         NEW vs, NEW ps, Awaits(d, v, frames, vs, ps), NEW u, u = vs[m], Container(u),
         NEW st, st = Append(frames, FrameOf(u, 0, << >>)),
         NEW q, q = ps[m] + 1
  PROVE  AtLoop(d, v, q, st)
  <1> DEFINE f == FrameOf(u, 0, << >>)
             n == Len(frames)
  <1>1. n \in Nat /\ m \in 1 .. n + 1
    BY FramesLen
  <1>2. u \in Values /\ ps[m] \in Nat
    BY <1>1, PlacedAt
  <1>3. Frame(f)
    BY DEF Frame, FrameOf
  <1>4. Frames(st) /\ Len(st) = m /\ st # << >>
    <2> HIDE DEF f
    <2>1. st = Append(frames, f)
      BY DEF f
    <2>2. Frames(st) /\ Len(st) = m
      BY <1>3, <2>1, FramesPushed
    <2>3. Len(<< >>) = 0
      OBVIOUS
    <2>4. QED
      BY <1>1, <2>2, <2>3
  <1>5. st[m] = f /\ \A i \in 1 .. n : st[i] = frames[i]
    <2> DEFINE S == {frames[i] : i \in DOMAIN frames}
    <2>1. frames \in Seq(S)
      BY DEF Frames
    <2> HIDE DEF S, f
    <2>2. st = Append(frames, f)
      BY DEF f
    <2>3. QED
      BY <2>1, <2>2
  <1>6. Awaits(d, v, Front(st), vs, ps) /\ Last(st) = f
    <2> DEFINE g == Front(st)
    <2> HIDE DEF f, n
    <2>1. /\ Len(g) = m - 1 /\ Last(st) = f
          /\ \A i \in 1 .. m - 1 : g[i] = st[i]
      <3>1. /\ Len(Front(st)) = Len(st) - 1 /\ Last(st) = st[Len(st)]
            /\ \A i \in 1 .. Len(st) - 1 : Front(st)[i] = st[i]
        BY <1>4, FrontFacts
      <3>2. QED
        BY <1>4, <1>5, <3>1
    <2>2. m - 1 = n
      BY <1>1 DEF n
    <2>3. /\ Len(frames) \in Nat /\ Len(g) \in Nat /\ Len(g) <= Len(frames)
          /\ \A i \in 1 .. Len(g) : g[i] = frames[i]
      BY <1>1, <1>5, <2>1, <2>2 DEF n
    <2> HIDE DEF g
    <2>4. Awaits(d, v, g, vs, ps)
      BY <2>3, AwaitsShorter
    <2>5. QED
      BY <2>1, <2>4 DEF g
  <1>7. Holds(f, m, u, 0, << >>)
    <2>1. 0 \in 0 .. Count(u)
      BY <1>2, ContainerFacts
    <2>2. \A j \in 1 .. 0 : Depth[Item(u, j)] + m <= MaxDepth
      OBVIOUS
    <2>3. QED
      BY <2>1, <2>2 DEF Holds
  <1>8. q = ps[m] + Offset(u, 0)
    BY <1>2, Offsets
  <1> HIDE DEF f, n
  <1>9. Holds(Last(st), Len(st), vs[Len(st)], 0, << >>) /\ q = ps[Len(st)] + Offset(vs[Len(st)], 0)
    BY <1>4, <1>6, <1>7, <1>8
  <1>10. QED
    BY <1>4, <1>6, <1>9 DEF AtLoop

\* A container that is closed was not too deep.
LEMMA ClosedFits ==
  ASSUME NEW w \in Values, NEW f, NEW n \in Nat \ {0}, n <= MaxDepth + 1,
         Holds(f, n, w, Count(w), << >>), NEW k, k = n - 1
  PROVE  Depth[w] + k <= MaxDepth
  <1>1. Container(w) /\ Depth[w] \in Nat /\ MaxDepth \in Nat
    BY DepthAssumption, ParserAssumption DEF Holds
  <1>2. CASE Depth[w] = 0
    BY <1>1, <1>2
  <1>3. CASE Depth[w] # 0
    <2>1. PICK e \in Elements(w) : Depth[w] = Depth[e] + 1
      BY <1>3, DepthAssumption
    <2>2. PICK j \in 1 .. Count(w) : Item(w, j) = e
      BY <1>1, ContainerFacts
    <2>3. Depth[e] + n <= MaxDepth
      BY <2>2 DEF Holds
    <2>4. Depth[e] \in Nat
      BY ElementsAreValues, DepthAssumption
    <2>5. QED
      BY <1>1, <2>1, <2>3, <2>4
  <1>4. QED
    BY <1>2, <1>3

-----------------------------------------------------------------------------
(* What the parser sees of a value *)

\* The byte that parse() dispatches on says what kind of value it is.
LEMMA ValueKind ==
  ASSUME NEW d, Len(d) \in Nat, NEW p \in Nat, NEW u \in Values, Stands(d, p, Encode[u]),
         p <= Len(d)
  PROVE  \/ u.type = "int" /\ d[p] = "i"
         \/ u.type = "string" /\ IsDigit(d[p])
         \/ u.type = "list" /\ d[p] = "l"
         \/ u.type = "dict" /\ d[p] = "d"
  <1>1. d[p] = Encode[u][1]
    <2>1. Len(Encode[u]) \in Nat /\ Len(Encode[u]) # 0
      BY EncodeFacts, FirstByte
    <2>2. QED
      BY <2>1, StandsFirst
  <1>2. u.type \in {"int", "string", "list", "dict"}
    BY Variants DEF Container
  <1>3. QED
    BY <1>1, <1>2, FirstByte

\* Numbers and strings have no elements.
LEMMA ScalarDepth ==
  ASSUME NEW u \in Values, u.type \in {"int", "string"}
  PROVE  Depth[u] = 0
  <1>1. u.type # "list" /\ u.type # "dict"
    OBVIOUS
  <1>2. Elements(u) = {}
    BY <1>1, Zenon DEF Elements
  <1>3. QED
    BY <1>2, DepthAssumption

\* The value u that stands at p is the next one the frames wait for.
ValueAt(d, v, p, st, vs, ps, m, u) ==
  /\ Awaits(d, v, st, vs, ps)
  /\ m = Len(st) + 1 /\ u = vs[m] /\ p = ps[m]
  /\ u \in Values /\ p \in Nat \ {0}
  /\ Stands(d, p, Encode[u])
  /\ Len(Encode[u]) \in Nat /\ Len(Encode[v]) \in Nat
  /\ p + Len(Encode[u]) <= Len(Encode[v]) + 1
  /\ Depth[u] \in Nat /\ Depth[v] \in Nat
  /\ Depth[u] + Len(st) <= Depth[v]

\* The value at the end of the path stands where the position is.
LEMMA AwaitsFacts ==
  ASSUME NEW d, NEW v \in Values, NEW st, Frames(st), NEW vs, NEW ps, Awaits(d, v, st, vs, ps),
         NEW m, m = Len(st) + 1, NEW u, u = vs[m], NEW p, p = ps[m]
  PROVE  ValueAt(d, v, p, st, vs, ps, m, u)
  <1>1. m \in 1 .. Len(st) + 1 /\ Len(st) \in Nat
    BY FramesLen
  <1>2. /\ u \in Values /\ p \in Nat \ {0} /\ Stands(d, p, Encode[u])
        /\ p + Len(Encode[u]) <= Len(Encode[v]) + 1
        /\ Depth[u] + m <= Depth[v] + 1
        /\ Len(Encode[u]) \in Nat /\ Len(Encode[v]) \in Nat
        /\ Depth[u] \in Nat /\ Depth[v] \in Nat
    BY <1>1, PlacedAt
  <1>3. Depth[u] + Len(st) <= Depth[v]
    BY <1>1, <1>2
  <1>4. QED
    BY <1>2, <1>3 DEF ValueAt

LEMMA AtValueFacts ==
  ASSUME NEW d, NEW v \in Values, NEW p, NEW st, Frames(st), AtValue(d, v, p, st)
  PROVE  \E vs, ps, m, u : ValueAt(d, v, p, st, vs, ps, m, u)
  <1>1. PICK vs, ps : Awaits(d, v, st, vs, ps) /\ p = ps[Len(st) + 1]
    BY DEF AtValue
  <1> DEFINE m == Len(st) + 1
             u == vs[m]
  <1>2. ValueAt(d, v, p, st, vs, ps, m, u)
    <2>1. m = Len(st) + 1 /\ u = vs[m] /\ p = ps[m]
      BY <1>1
    <2> HIDE DEF m, u
    <2>2. QED
      BY <1>1, <2>1, AwaitsFacts
  <1> HIDE DEF m, u
  <1>3. QED
    BY <1>2

\* The loop of frame n, which is for w at q, has k elements.
LoopAt(d, v, p, st, vs, ps, n, w, q, k) ==
  /\ st # << >> /\ n = Len(st) /\ n \in Nat \ {0} /\ Last(st) = st[n]
  /\ Len(Front(st)) = n - 1 /\ \A i \in 1 .. n - 1 : st[i] = Front(st)[i]
  /\ Awaits(d, v, Front(st), vs, ps)
  /\ w = vs[n] /\ q = ps[n]
  /\ Placed(d, v, n, w, q)
  /\ k \in Nat /\ Holds(st[n], n, w, k, << >>)
  /\ p = q + Offset(w, k)

\* The innermost container and how many of its elements are read.
LEMMA AtLoopFacts ==
  ASSUME NEW d, NEW v \in Values, NEW p, NEW st, Frames(st), AtLoop(d, v, p, st)
  PROVE  \E vs, ps, n, w, q, k : LoopAt(d, v, p, st, vs, ps, n, w, q, k)
  <1>1. PICK vs, ps :
          /\ st # << >>
          /\ Awaits(d, v, Front(st), vs, ps)
          /\ \E k \in Nat :
               /\ Holds(Last(st), Len(st), vs[Len(st)], k, << >>)
               /\ p = ps[Len(st)] + Offset(vs[Len(st)], k)
    BY DEF AtLoop
  <1>2. PICK k \in Nat :
               /\ Holds(Last(st), Len(st), vs[Len(st)], k, << >>)
               /\ p = ps[Len(st)] + Offset(vs[Len(st)], k)
    BY <1>1
  <1> DEFINE n == Len(st)
             w == vs[n]
             q == ps[n]
             g == Front(st)
  <1>3. /\ n \in Nat \ {0} /\ Last(st) = st[n] /\ Len(g) = n - 1
        /\ \A i \in 1 .. n - 1 : st[i] = g[i]
    BY <1>1, FrontFacts
  <1>4. Placed(d, v, n, w, q)
    <2> HIDE DEF n, g
    <2>1. n \in 1 .. Len(g) + 1
      BY <1>3
    <2>2. QED
      BY <1>1, <2>1 DEF Awaits, g
  <1>5. /\ n = Len(st) /\ w = vs[n] /\ q = ps[n] /\ Holds(st[n], n, w, k, << >>)
        /\ p = q + Offset(w, k) /\ g = Front(st)
    BY <1>2, <1>3
  <1> HIDE DEF n, w, q, g
  <1>6. LoopAt(d, v, p, st, vs, ps, n, w, q, k)
    BY <1>1, <1>3, <1>4, <1>5 DEF LoopAt
  <1>7. QED
    BY <1>6

\* The byte at the loop's condition is the "e" if all elements are read.
LEMMA LoopByte ==
  ASSUME NEW d, Len(d) \in Nat, NEW v \in Values, NEW n, NEW w, NEW q, Placed(d, v, n, w, q),
         Container(w), NEW k \in 0 .. Count(w), NEW p, p = q + Offset(w, k)
  PROVE  /\ p \in Nat \ {0} /\ p <= Len(Encode[v]) /\ Len(Encode[v]) \in Nat
         /\ p <= Len(d) => (d[p] = "e" <=> k = Count(w))
  <1>1. /\ w \in Values /\ q \in Nat \ {0} /\ Stands(d, q, Encode[w])
        /\ q + Len(Encode[w]) <= Len(Encode[v]) + 1
    BY DEF Placed
  <1>2. Len(Encode[w]) \in Nat /\ Len(Encode[v]) \in Nat /\ Count(w) \in Nat
    BY <1>1, EncodeFacts, ContainerFacts
  <1>3. Offset(w, k) \in Nat /\ Offset(w, k) + 1 <= Len(Encode[w])
    BY <1>1, Offsets
  <1>4. p \in Nat \ {0} /\ p <= Len(Encode[v])
    <2> DEFINE a == Offset(w, k)
               y == Len(Encode[w])
               z == Len(Encode[v])
    <2>1. /\ a \in Nat /\ y \in Nat /\ z \in Nat /\ q \in Nat \ {0}
          /\ p = q + a /\ a + 1 <= y /\ q + y <= z + 1
      BY <1>1, <1>2, <1>3
    <2> HIDE DEF a, y, z
    <2>2. p \in Nat \ {0} /\ p <= z
      BY <2>1
    <2>3. QED
      BY <2>2 DEF z
  <1>5. ASSUME p <= Len(d), k = Count(w) PROVE d[p] = "e"
    <2>1. Stands(d, p, <<"e">>)
      BY <1>1, <1>5, EndStands
    <2>2. Len(<<"e">>) = 1 /\ <<"e">>[1] = "e"
      OBVIOUS
    <2> DEFINE t == <<"e">>
    <2>3. Stands(d, p, t) /\ Len(t) \in Nat /\ Len(t) # 0 /\ t[1] = "e"
      BY <2>1, <2>2
    <2> HIDE DEF t
    <2>4. QED
      BY <1>4, <1>5, <2>3, StandsFirst
  <1>6. ASSUME p <= Len(d), k # Count(w) PROVE d[p] # "e"
    <2> DEFINE j == k + 1
    <2>1. k \in 0 .. Count(w) - 1 /\ j = k + 1 /\ q \in Nat
      BY <1>1, <1>2, <1>6
    <2> HIDE DEF j
    <2>2. /\ Item(w, j) \in Values /\ j \in 1 .. Count(w)
          /\ Stands(d, p, KeyText(w, j))
          /\ Stands(d, p + Len(KeyText(w, j)), Encode[Item(w, j)])
      BY <1>1, <2>1, PartStands
    <2>3. CASE w.type = "list"
      <3>1. KeyText(w, j) = << >> /\ Len(<< >>) = 0
        BY <2>3 DEF KeyText
      <3>2. p + 0 = p
        BY <1>4
      <3>3. Stands(d, p, Encode[Item(w, j)])
        BY <2>2, <3>1, <3>2
      <3> DEFINE u == Item(w, j)
      <3>4. u \in Values /\ Stands(d, p, Encode[u])
        BY <2>2, <3>3
      <3> HIDE DEF u
      <3>5. QED
        BY <1>4, <1>6, <3>4, ValueKind, DigitsAre
    <2>4. CASE w.type = "dict"
      <3> DEFINE s == KeysOf(w)[j]
      <3>1. s \in Seq(Byte)
        BY <1>1, <2>2, <2>4, DictFacts
      <3>2. KeyText(w, j) = EncodeString(s)
        BY <2>4 DEF KeyText
      <3> HIDE DEF s
      <3>3. Len(EncodeString(s)) \in Nat /\ Len(EncodeString(s)) # 0 /\ IsDigit(EncodeString(s)[1])
        BY <3>1, EncodeStringFacts
      <3>4. d[p] = EncodeString(s)[1]
        BY <1>4, <1>6, <2>2, <3>2, <3>3, StandsFirst
      <3>5. QED
        BY <3>3, <3>4, DigitsAre
    <2>5. QED
      BY <2>3, <2>4 DEF Container
  <1>7. QED
    BY <1>2, <1>4, <1>5, <1>6

\* The key that stands at the loop's condition of a dict.
LEMMA KeyStands ==
  ASSUME NEW d, Len(d) \in Nat, NEW v \in Values, NEW n, NEW w, NEW q, Placed(d, v, n, w, q),
         Container(w), w.type = "dict", NEW k \in Nat, NEW j \in Nat, j = k + 1, j <= Count(w),
         NEW p, p = q + Offset(w, k)
  PROVE  /\ KeysOf(w)[j] \in Seq(Byte) /\ KeyText(w, j) = EncodeString(KeysOf(w)[j])
         /\ Stands(d, p, EncodeString(KeysOf(w)[j]))
         /\ Len(EncodeString(KeysOf(w)[j])) \in Nat
         /\ p + Len(EncodeString(KeysOf(w)[j])) <= Len(Encode[v])
  <1>1. /\ w \in Values /\ q \in Nat /\ Stands(d, q, Encode[w])
        /\ q + Len(Encode[w]) <= Len(Encode[v]) + 1
    BY DEF Placed
  <1>2. Len(Encode[w]) \in Nat /\ Len(Encode[v]) \in Nat /\ Count(w) \in Nat
    BY <1>1, EncodeFacts, ContainerFacts
  <1>3. k \in 0 .. Count(w) - 1 /\ j \in 1 .. Count(w) /\ j \in 0 .. Count(w) /\ k \in 0 .. Count(w)
    BY <1>2
  <1> DEFINE s == KeysOf(w)[j]
             t == KeyText(w, j)
             a == Offset(w, k)
             b == Offset(w, j)
             x == Len(Encode[Item(w, j)])
  <1>4. s \in Seq(Byte) /\ t = EncodeString(s)
    BY <1>1, <1>3, DictFacts DEF KeyText
  <1>5. /\ Len(t) \in Nat /\ Item(w, j) \in Values
        /\ Stands(d, p, t)
        /\ b = a + Len(t) + x
    <2>1. Len(KeyText(w, j)) \in Nat /\ Item(w, j) \in Values
      BY <1>1, <1>3, PartStands
    <2>2. Stands(d, q + Offset(w, k), KeyText(w, j))
      BY <1>1, <1>3, PartStands
    <2>3. Offset(w, j) = Offset(w, k) + Len(KeyText(w, j)) + Len(Encode[Item(w, j)])
      BY <1>1, <1>3, PartStands
    <2>4. Stands(d, p, KeyText(w, j))
      BY <2>2, Zenon
    <2>5. QED
      BY <2>1, <2>3, <2>4, Zenon
  <1>6. a \in Nat /\ b \in Nat /\ b + 1 <= Len(Encode[w]) /\ x \in Nat
    BY <1>1, <1>3, <1>5, Offsets, EncodeFacts
  <1>7. p = q + a
    OBVIOUS
  <1> HIDE DEF s, t, a, b, x
  <1>8. p + Len(t) <= Len(Encode[v])
    <2> DEFINE c == Len(t)
               y == Len(Encode[w])
               z == Len(Encode[v])
    <2>1. /\ a \in Nat /\ c \in Nat /\ x \in Nat /\ y \in Nat /\ z \in Nat /\ q \in Nat
          /\ p = q + a /\ b = a + c + x /\ b + 1 <= y /\ q + y <= z + 1
      BY <1>1, <1>2, <1>5, <1>6, <1>7
    <2> HIDE DEF c, y, z
    <2>2. p + c <= z
      BY <2>1
    <2>3. QED
      BY <2>2 DEF c, z
  <1>9. QED
    BY <1>4, <1>5, <1>8 DEF s, t

-----------------------------------------------------------------------------
(* The steps of the parser over the encoding of a value *)

\* When parse() is entered, a value of v is next.
LEMMA EnteredAtValue ==
  ASSUME ParserInv, NEW v \in Values, Entered, Parses(data, v, pos, stack, outcome, result)
  PROVE  AtValue(data, v, pos, stack)
  <1>1. /\ Frames(stack) /\ Len(data) \in Nat
        /\ AtValue(data, v, pos, stack) \/ AtLoop(data, v, pos, stack)
    BY Facts DEF Entered, Running, Parses
  <1>2. CASE AtLoop(data, v, pos, stack)
    <2>1. PICK vs, ps, n, w, q, k : LoopAt(data, v, pos, stack, vs, ps, n, w, q, k)
      BY <1>1, <1>2, AtLoopFacts
    <2>2. /\ stack # << >> /\ Last(stack) = stack[n] /\ n = Len(stack) /\ n \in Nat \ {0}
          /\ Len(Front(stack)) = n - 1 /\ \A i \in 1 .. n - 1 : stack[i] = Front(stack)[i]
          /\ Awaits(data, v, Front(stack), vs, ps)
          /\ w = vs[n] /\ q = ps[n] /\ Placed(data, v, n, w, q)
          /\ k \in Nat /\ Holds(stack[n], n, w, k, << >>)
          /\ pos = q + Offset(w, k)
      BY <2>1 DEF LoopAt
    <2>3. Container(w) /\ k \in 0 .. Count(w) /\ stack[n] = FrameOf(w, k, << >>)
      BY <2>2 DEF Holds
    <2>4. w.type = "list"
      <3> SUFFICES ASSUME w.type = "dict" PROVE FALSE
        BY <2>3 DEF Container
      <3>1. Top.id = "d" /\ Top.key = << >>
        BY <2>2, <2>3, FrameKind DEF Top
      <3>2. QED
        BY <2>2, <3>1 DEF Entered, AwaitsValue, InDict
    <2>5. Top.id = "l"
      BY <2>2, <2>3, <2>4, FrameKind DEF Top
    <2>6. ~AtEnd /\ pos <= Len(data)
      BY <2>2, <2>5 DEF Entered, AwaitsValue, InDict
    <2>7. k # Count(w)
      BY <1>1, <2>2, <2>3, <2>6, LoopByte DEF AtEnd
    <2> DEFINE j == k + 1
               g == Front(stack)
    <2>8. j \in Nat /\ j = k + 1 /\ j <= Count(w)
      <3>1. w \in Values
        BY <2>2 DEF Placed
      <3>2. Count(w) \in Nat
        BY <2>3, <3>1, ContainerFacts
      <3>3. QED
        BY <2>2, <2>3, <2>7, <3>2
    <2>9. KeyRead(w, j) = << >> /\ KeyText(w, j) = << >>
      BY <2>4 DEF KeyRead, KeyText
    <2> HIDE DEF j
    <2>10. AtValue(data, v, q + Offset(w, k) + Len(KeyText(w, j)), stack)
      <3>1. Len(g) = n - 1 /\ (\A i \in 1 .. n - 1 : stack[i] = g[i]) /\ Awaits(data, v, g, vs, ps)
        BY <2>2
      <3> HIDE DEF g
      <3>2. Holds(stack[n], n, vs[n], k, KeyRead(vs[n], j)) /\ j <= Count(vs[n])
        BY <2>2, <2>8, <2>9
      <3>3. AtValue(data, v, ps[n] + Offset(vs[n], k) + Len(KeyText(vs[n], j)), stack)
        <4>1. Len(stack) = n
          BY <2>2
        <4>2. QED
          BY <1>1, <2>2, <2>8, <3>1, <3>2, <4>1, NextElement
      <3>4. QED
        BY <2>2, <3>3
    <2>11. q + Offset(w, k) + Len(<< >>) = pos
      <3>1. pos \in Nat
        BY Facts
      <3>2. Len(<< >>) = 0 /\ pos + 0 = pos
        BY <3>1
      <3>3. QED
        BY <2>2, <3>2
    <2>12. QED
      BY <2>9, <2>10, <2>11
  <1>3. QED
    BY <1>1, <1>2

\* A loop's condition is evaluated between two elements.
LEMMA InLoopAtLoop ==
  ASSUME ParserInv, NEW v \in Values, InLoop, Parses(data, v, pos, stack, outcome, result)
  PROVE  AtLoop(data, v, pos, stack)
  <1>1. (AtValue(data, v, pos, stack) /\ KeyIsRead(stack)) \/ AtLoop(data, v, pos, stack)
    BY DEF InLoop, Running, Parses
  <1>2. ~KeyIsRead(stack)
    BY DEF InLoop, AwaitsValue, InDict, Top, KeyIsRead
  <1>3. QED
    BY <1>1, <1>2

\* A value that returns to its caller.
LEMMA ReturnParses ==
  ASSUME Len(data) \in Nat, NEW v \in Values, NEW frames, Frames(frames),
         NEW vs, NEW ps, NEW m, NEW u, NEW p, ValueAt(data, v, p, frames, vs, ps, m, u),
         Depth[u] + Len(frames) <= MaxDepth,
         outcome = "running", Return(u, frames), data' = data,
         pos' = p + Len(Encode[u]), pos' <= Len(data) + 1
  PROVE  Parses(data', v, pos', stack', outcome', result')
  <1>1. /\ Awaits(data, v, frames, vs, ps)
        /\ m = Len(frames) + 1 /\ u = vs[m] /\ p = ps[m]
        /\ Len(Encode[u]) \in Nat /\ Len(Encode[v]) \in Nat
        /\ Depth[u] \in Nat
    BY DEF ValueAt
  <1>2. CASE frames = << >>
    <2>1. outcome' = "returned" /\ result' = <<u>>
      BY <1>2 DEF Return
    <2>2. Len(frames) = 0 /\ m = 1
      BY <1>1, <1>2
    <2>3. u = v /\ p = 1
      BY <1>1, <2>2 DEF Awaits
    <2>4. Len(Encode[v]) <= Len(data) /\ Depth[v] <= MaxDepth
      BY <1>1, <2>2, <2>3
    <2>5. result' = <<v>>
      BY <2>1, <2>3
    <2>6. QED
      BY <2>1, <2>4, <2>5 DEF Parses
  <1>3. CASE frames # << >>
    <2> DEFINE n == Len(frames)
               f == WithValue(frames[n], u)
               st == [frames EXCEPT ![n] = f]
    <2>1. n \in Nat /\ n # 0 /\ n \in DOMAIN frames
      BY <1>3, FramesLen, FrontFacts
    <2>2. stack' = st /\ outcome' = "running"
      BY <1>3 DEF Return
    <2>3. Changed(frames, st, f)
      <3>1. Frame(frames[n])
        BY <2>1 DEF Frames
      <3>2. Frame(f)
        <4> HIDE DEF n
        <4>1. QED
          BY <3>1, WithValueIsFrame
      <3> HIDE DEF f
      <3>3. QED
        BY <1>3, <3>2, FrameReplaced
    <2>4. Changed(frames, stack', WithValue(frames[n], u))
      BY <2>2, <2>3
    <2> HIDE DEF st, f
    <2>5. AtLoop(data, v, pos', stack')
      <3>1. n = Len(frames) /\ m = n + 1
        BY <1>1
      <3>2. Depth[u] + n <= MaxDepth
        OBVIOUS
      <3> HIDE DEF n
      <3>3. pos' = ps[m] + Len(Encode[u])
        BY <1>1
      <3>4. QED
        BY <1>1, <2>1, <2>4, <3>1, <3>2, <3>3, ElementAdded
    <2>6. QED
      BY <2>2, <2>5 DEF Parses
  <1>4. QED
    BY <1>2, <1>3

\* Each step of the parser stays on its way to v.
LEMMA ParseIntParses ==
  ASSUME ParserInv, NEW v \in Values, Parses(data, v, pos, stack, outcome, result), ParseInt
  PROVE  Parses(data', v, pos', stack', outcome', result')
  <1>1. PICK r \in IntAt(pos) : Return(Integer(r.int), stack) /\ pos' = r.next
    BY DEF ParseInt
  <1>2. /\ Entered /\ outcome = "running" /\ data' = data /\ ~TooDeep
        /\ Char(pos) = "i"
    BY DEF ParseInt, Dispatch, Entered, Running
  <1>3. /\ data \in Seq(Byte) /\ Len(data) \in Nat /\ Frames(stack) /\ Len(stack) \in Nat
        /\ MaxDepth \in Nat
    BY Facts
  <1>4. PICK vs, ps, m, u : ValueAt(data, v, pos, stack, vs, ps, m, u)
    BY <1>2, <1>3, EnteredAtValue, AtValueFacts
  <1>5. u \in Values /\ pos \in Nat \ {0} /\ Stands(data, pos, Encode[u])
    BY <1>4 DEF ValueAt
  <1>6. pos <= Len(data) /\ data[pos] = "i"
    BY <1>2, <1>5 DEF Char
  <1>7. u.type = "int"
    BY <1>3, <1>5, <1>6, ValueKind, DigitsAre
  <1>8. /\ u = Integer(u.int) /\ u.int \in Int /\ InRange(u.int)
        /\ Encode[u] = <<"i">> \o ToText(u.int) \o <<"e">>
    BY <1>5, <1>7, Variants, EncodeFacts
  <1>9. r.int = u.int /\ r.next = pos + Len(Encode[u])
    <2> DEFINE i == u.int
               t == <<"i">> \o ToText(i) \o <<"e">>
    <2>1. i \in Int /\ InRange(i) /\ Stands(data, pos, t) /\ Encode[u] = t
      BY <1>5, <1>8
    <2> HIDE DEF i
    <2>2. Len(t) = Len(ToText(i)) + 2 /\ r.int = i /\ r.next = pos + Len(ToText(i)) + 2
      BY <1>3, <1>5, <2>1, IntegerRead
    <2>3. Len(ToText(i)) \in Nat
      BY <2>1, ToTextFacts
    <2> HIDE DEF t
    <2>4. r.next = pos + Len(t)
      BY <1>5, <2>2, <2>3
    <2>5. QED
      BY <2>1, <2>2, <2>4 DEF i
  <1>10. pos' <= Len(data) + 1
    BY <1>1, Facts, IntEnds
  <1>11. Depth[u] + Len(stack) <= MaxDepth
    BY <1>2, <1>3, <1>5, <1>7, ScalarDepth DEF TooDeep
  <1>12. Return(u, stack) /\ pos' = pos + Len(Encode[u])
    BY <1>1, <1>8, <1>9
  <1>13. QED
    BY <1>2, <1>3, <1>4, <1>10, <1>11, <1>12, ReturnParses

LEMMA ParseStringParses ==
  ASSUME ParserInv, NEW v \in Values, Parses(data, v, pos, stack, outcome, result), ParseString
  PROVE  Parses(data', v, pos', stack', outcome', result')
  <1>1. PICK r \in StringAt(pos) : Return(String(r.text), stack) /\ pos' = r.next
    BY DEF ParseString
  <1>2. /\ Entered /\ outcome = "running" /\ data' = data /\ ~TooDeep
        /\ IsDigit(Char(pos))
    BY DEF ParseString, Dispatch, Entered, Running
  <1>3. /\ data \in Seq(Byte) /\ Len(data) \in Nat /\ Frames(stack) /\ Len(stack) \in Nat
        /\ MaxDepth \in Nat
    BY Facts
  <1>4. PICK vs, ps, m, u : ValueAt(data, v, pos, stack, vs, ps, m, u)
    BY <1>2, <1>3, EnteredAtValue, AtValueFacts
  <1>5. u \in Values /\ pos \in Nat \ {0} /\ Stands(data, pos, Encode[u])
    BY <1>4 DEF ValueAt
  <1>6. pos <= Len(data) /\ IsDigit(data[pos])
    <2>1. Char(pos) # "NUL"
      BY <1>2, DigitsAre
    <2>2. QED
      BY <1>2, <2>1, CharInText DEF Char
  <1>7. u.type = "string"
    BY <1>3, <1>5, <1>6, ValueKind, DigitsAre
  <1>8. /\ u = String(u.string) /\ u.string \in Seq(Byte)
        /\ Encode[u] = EncodeString(u.string)
    BY <1>5, <1>7, Variants, EncodeFacts
  <1>9. r.text = u.string /\ r.next = pos + Len(Encode[u])
    <2>1. pos + Len(Encode[u]) <= MaxSize + 1
      BY <1>4, SizeOfEncoding DEF ValueAt
    <2>2. QED
      BY <1>3, <1>5, <1>8, <2>1, StringRead
  <1>10. pos' <= Len(data) + 1
    BY <1>1, Facts, StringEnds
  <1>11. Depth[u] + Len(stack) <= MaxDepth
    BY <1>2, <1>3, <1>5, <1>7, ScalarDepth DEF TooDeep
  <1>12. Return(u, stack) /\ pos' = pos + Len(Encode[u])
    BY <1>1, <1>8, <1>9
  <1>13. QED
    BY <1>2, <1>3, <1>4, <1>10, <1>11, <1>12, ReturnParses

LEMMA OpenParses ==
  ASSUME ParserInv, NEW v \in Values, Parses(data, v, pos, stack, outcome, result), Open
  PROVE  Parses(data', v, pos', stack', outcome', result')
  <1>1. /\ Entered /\ outcome = "running" /\ data' = data /\ outcome' = outcome
        /\ Char(pos) \in {"l", "d"} /\ pos' = pos + 1
        /\ stack' = Append(stack, IF Char(pos) = "l" THEN ListFrame ELSE DictFrame)
    BY DEF Open, Dispatch, Entered, Running
  <1>2. /\ data \in Seq(Byte) /\ Len(data) \in Nat /\ Frames(stack) /\ Len(stack) \in Nat
    BY Facts
  <1>3. PICK vs, ps, m, u : ValueAt(data, v, pos, stack, vs, ps, m, u)
    BY <1>1, <1>2, EnteredAtValue, AtValueFacts
  <1>4. /\ u \in Values /\ pos \in Nat \ {0} /\ Stands(data, pos, Encode[u])
        /\ Awaits(data, v, stack, vs, ps) /\ m = Len(stack) + 1 /\ u = vs[m] /\ pos = ps[m]
    BY <1>3 DEF ValueAt
  <1>5. pos <= Len(data) /\ data[pos] = Char(pos)
    BY <1>1, CharInText DEF Char
  <1>6. \/ u.type = "list" /\ Char(pos) = "l"
        \/ u.type = "dict" /\ Char(pos) = "d"
    <2>1. ~IsDigit(Char(pos)) /\ Char(pos) # "i"
      BY <1>1, DigitsAre
    <2>2. \/ u.type = "int" /\ Char(pos) = "i"
          \/ u.type = "string" /\ IsDigit(Char(pos))
          \/ u.type = "list" /\ Char(pos) = "l"
          \/ u.type = "dict" /\ Char(pos) = "d"
      <3>1. pos \in Nat
        BY <1>4
      <3>2. QED
        BY <1>2, <1>4, <1>5, <3>1, ValueKind
    <2>3. QED
      BY <2>1, <2>2
  <1>7. Container(u) /\ FrameOf(u, 0, << >>) = IF Char(pos) = "l" THEN ListFrame ELSE DictFrame
    <2>1. Container(u)
      BY <1>6 DEF Container
    <2>2. QED
      BY <1>4, <1>6, <2>1, OpenedFrame
  <1>8. AtLoop(data, v, pos', stack')
    <2>1. stack' = Append(stack, FrameOf(u, 0, << >>)) /\ pos' = ps[m] + 1
      BY <1>1, <1>4, <1>7
    <2>2. QED
      BY <1>2, <1>4, <1>7, <2>1, ContainerOpened
  <1>9. QED
    BY <1>1, <1>8 DEF Parses

LEMMA CloseParses ==
  ASSUME ParserInv, NEW v \in Values, Parses(data, v, pos, stack, outcome, result), Close
  PROVE  Parses(data', v, pos', stack', outcome', result')
  <1>1. /\ InLoop /\ outcome = "running" /\ data' = data /\ pos <= Len(data) /\ data[pos] = "e"
        /\ pos' = pos + 1
        /\ Return(IF InDict THEN Dict(Top.values) ELSE List(Top.values), Front(stack))
    BY DEF Close, InLoop, Running, AtEnd
  <1>2. /\ Len(data) \in Nat /\ Frames(stack) /\ Len(stack) \in Nat /\ Len(stack) <= MaxDepth + 1
        /\ MaxDepth \in Nat
    BY Facts
  <1>3. PICK vs, ps, n, w, q, k : LoopAt(data, v, pos, stack, vs, ps, n, w, q, k)
    BY <1>1, <1>2, InLoopAtLoop, AtLoopFacts
  <1>4. /\ stack # << >> /\ Last(stack) = stack[n] /\ n = Len(stack) /\ n \in Nat \ {0}
        /\ Len(Front(stack)) = n - 1
        /\ Awaits(data, v, Front(stack), vs, ps)
        /\ w = vs[n] /\ q = ps[n] /\ Placed(data, v, n, w, q)
        /\ Holds(stack[n], n, w, k, << >>)
        /\ pos = q + Offset(w, k)
    BY <1>3 DEF LoopAt
  <1>5. Container(w) /\ k \in 0 .. Count(w) /\ stack[n] = FrameOf(w, k, << >>) /\ w \in Values
    BY <1>4 DEF Holds, Placed
  <1>6. k = Count(w)
    BY <1>1, <1>2, <1>4, <1>5, LoopByte
  <1>7. w = IF InDict THEN Dict(Top.values) ELSE List(Top.values)
    <2>1. Top = FrameOf(w, Count(w), << >>)
      BY <1>4, <1>5, <1>6 DEF Top
    <2>2. /\ w.type = "list" => Top.id = "l" /\ List(Top.values) = w
          /\ w.type = "dict" => Top.id = "d" /\ Dict(Top.values) = w
      BY <1>5, <2>1, FrameFull
    <2>3. InDict <=> Top.id = "d"
      BY <1>4 DEF InDict
    <2>4. CASE w.type = "list"
      BY <2>2, <2>3, <2>4
    <2>5. CASE w.type = "dict"
      BY <2>2, <2>3, <2>5
    <2>6. QED
      BY <1>5, <2>4, <2>5 DEF Container
  <1> DEFINE g == Front(stack)
  <1>8. /\ Return(w, g) /\ Frames(g) /\ Len(g) = n - 1 /\ Awaits(data, v, g, vs, ps)
    BY <1>1, <1>2, <1>4, <1>7, FramesPopped
  <1> HIDE DEF g
  <1>9. ValueAt(data, v, q, g, vs, ps, n, w)
    <2>1. n = Len(g) + 1
      BY <1>4, <1>8
    <2>2. QED
      BY <1>4, <1>8, <2>1, AwaitsFacts
  <1>10. Depth[w] + Len(g) <= MaxDepth
    <2>1. Holds(stack[n], n, w, Count(w), << >>) /\ n <= MaxDepth + 1
      BY <1>2, <1>4, <1>6
    <2>2. QED
      BY <1>4, <1>5, <1>8, <2>1, ClosedFits
  <1>11. pos' = q + Len(Encode[w])
    <2>1. pos = q + Offset(w, Count(w)) /\ q \in Nat
      BY <1>4, <1>6 DEF Placed
    <2>2. Offset(w, Count(w)) + 1 = Len(Encode[w]) /\ Offset(w, Count(w)) \in Nat
      BY <1>5, <1>6, Offsets
    <2>3. QED
      BY <1>1, <2>1, <2>2
  <1>12. pos' <= Len(data) + 1
    BY <1>1, <1>2, Facts
  <1>13. QED
    BY <1>1, <1>2, <1>8, <1>9, <1>10, <1>11, <1>12, ReturnParses

LEMMA ParseKeyParses ==
  ASSUME ParserInv, NEW v \in Values, Parses(data, v, pos, stack, outcome, result), ParseKey
  PROVE  Parses(data', v, pos', stack', outcome', result')
  <1>1. PICK r \in StringAt(pos) :
          stack' = [stack EXCEPT ![Len(stack)].key = <<r.text>>] /\ pos' = r.next
    BY DEF ParseKey
  <1>2. /\ InLoop /\ InDict /\ outcome = "running" /\ data' = data /\ outcome' = outcome
        /\ pos <= Len(data) /\ data[pos] # "e"
    BY DEF ParseKey, InLoop, Running, AtEnd
  <1>3. /\ data \in Seq(Byte) /\ Len(data) \in Nat /\ Frames(stack) /\ Len(stack) \in Nat
    BY Facts
  <1>4. PICK vs, ps, n, w, q, k : LoopAt(data, v, pos, stack, vs, ps, n, w, q, k)
    BY <1>2, <1>3, InLoopAtLoop, AtLoopFacts
  <1>5. /\ stack # << >> /\ Last(stack) = stack[n] /\ n = Len(stack) /\ n \in Nat \ {0}
        /\ Len(Front(stack)) = n - 1 /\ \A i \in 1 .. n - 1 : stack[i] = Front(stack)[i]
        /\ Awaits(data, v, Front(stack), vs, ps)
        /\ w = vs[n] /\ q = ps[n] /\ Placed(data, v, n, w, q)
        /\ k \in Nat /\ Holds(stack[n], n, w, k, << >>)
        /\ pos = q + Offset(w, k)
    BY <1>4 DEF LoopAt
  <1>6. Container(w) /\ k \in 0 .. Count(w) /\ stack[n] = FrameOf(w, k, << >>) /\ w \in Values
    BY <1>5 DEF Holds, Placed
  <1>7. w.type = "dict"
    <2> SUFFICES ASSUME w.type = "list" PROVE FALSE
      BY <1>6 DEF Container
    <2>1. Top.id = "l"
      BY <1>5, <1>6, FrameKind DEF Top
    <2>2. QED
      BY <1>2, <2>1 DEF InDict
  <1>8. k # Count(w)
    BY <1>2, <1>3, <1>5, <1>6, LoopByte
  <1> DEFINE j == k + 1
  <1>9. j \in Nat /\ j = k + 1 /\ j <= Count(w)
    <2>1. Count(w) \in Nat
      BY <1>6, ContainerFacts
    <2>2. QED
      BY <1>5, <1>6, <1>8, <2>1
  <1> HIDE DEF j
  <1>10. r.text = KeysOf(w)[j] /\ r.next = pos + Len(KeyText(w, j))
    <2> DEFINE s == KeysOf(w)[j]
    <2>1. /\ s \in Seq(Byte) /\ KeyText(w, j) = EncodeString(s)
          /\ Stands(data, pos, EncodeString(s))
          /\ Len(EncodeString(s)) \in Nat
          /\ pos + Len(EncodeString(s)) <= Len(Encode[v])
      BY <1>3, <1>5, <1>6, <1>7, <1>9, KeyStands
    <2> HIDE DEF s
    <2>2. pos \in Nat \ {0}
      BY Facts
    <2>3. pos + Len(EncodeString(s)) <= MaxSize + 1
      <3>1. Len(Encode[v]) \in Nat
        BY EncodeFacts
      <3>2. pos + Len(EncodeString(s)) <= Len(Encode[v]) + 1
        BY <2>1, <2>2, <3>1
      <3>3. QED
        BY <2>1, <2>2, <3>2, SizeOfEncoding
    <2>4. r.text = s /\ r.next = pos + Len(EncodeString(s))
      BY <1>3, <2>1, <2>2, <2>3, StringRead
    <2>5. QED
      BY <2>1, <2>4 DEF s
  <1> DEFINE f == [stack[n] EXCEPT !.key = <<r.text>>]
             st == [stack EXCEPT ![n] = f]
  <1>11. f = FrameOf(w, k, KeyRead(w, j))
    <2> DEFINE b == [x \in {KeysOf(w)[i] : i \in 1 .. k} |-> w.map[x]]
               y == <<KeysOf(w)[j]>>
    <2>1. w.type # "list"
      BY <1>7
    <2>2. stack[n] = [id |-> "d", values |-> b, key |-> << >>]
      BY <1>6, <2>1, Zenon DEF FrameOf
    <2>3. FrameOf(w, k, KeyRead(w, j)) = [id |-> "d", values |-> b, key |-> y]
      BY <2>1, Zenon DEF FrameOf, KeyRead
    <2>4. f = [stack[n] EXCEPT !.key = y]
      BY <1>10
    <2> HIDE DEF b, y, f
    <2>5. f = [id |-> "d", values |-> b, key |-> y]
      BY <2>2, <2>4
    <2>6. QED
      BY <2>3, <2>5
  <1>12. Changed(stack, st, f)
    <2>1. Frame(f)
      <3>1. Frame(stack[n])
        BY <1>3, <1>5, FramesLen DEF Frames
      <3>2. stack[n].id = "d"
        BY <1>6, <1>7, FrameKind
      <3>3. QED
        BY <3>1, <3>2, KeyIsFrame
    <2> HIDE DEF f
    <2>2. QED
      BY <1>3, <1>5, <2>1, FrameReplaced
  <1>13. stack' = st
    BY <1>1, <1>5
  <1> HIDE DEF st, f
  <1>14. /\ Len(stack') = n /\ stack' # << >> /\ stack'[n] = f /\ Last(stack') = f
         /\ \A i \in 1 .. n - 1 : stack'[i] = Front(stack)[i]
    BY <1>5, <1>12, <1>13 DEF Changed
  <1>15. AtValue(data, v, q + Offset(w, k) + Len(KeyText(w, j)), stack')
    <2> DEFINE g == Front(stack)
               z == stack'
    <2>1. /\ Len(g) = n - 1 /\ (\A i \in 1 .. n - 1 : z[i] = g[i])
          /\ Awaits(data, v, g, vs, ps) /\ Len(z) = n
      BY <1>5, <1>14
    <2>2. Holds(z[n], n, vs[n], k, KeyRead(vs[n], j)) /\ j <= Count(vs[n])
      BY <1>5, <1>9, <1>11, <1>14 DEF Holds
    <2> HIDE DEF g, z
    <2>3. AtValue(data, v, ps[n] + Offset(vs[n], k) + Len(KeyText(vs[n], j)), z)
      BY <1>3, <1>5, <1>9, <2>1, <2>2, NextElement
    <2>4. QED
      BY <1>5, <2>3 DEF z
  <1>16. pos' = q + Offset(w, k) + Len(KeyText(w, j))
    BY <1>1, <1>5, <1>10
  <1>17. KeyIsRead(stack')
    <2>1. f.id = "d" /\ f.key = KeyRead(w, j)
      BY <1>6, <1>7, <1>11, FrameKind
    <2>2. KeyRead(w, j) # << >>
      BY <1>7 DEF KeyRead
    <2>3. QED
      BY <1>14, <2>1, <2>2 DEF KeyIsRead
  <1>18. QED
    BY <1>2, <1>15, <1>16, <1>17 DEF Parses

\* What is refused where parse() is entered: the text is cut off, or the value
\* is nested too deep.
LEMMA EnteredRefuses ==
  ASSUME ParserInv, NEW v \in Values, Parses(data, v, pos, stack, outcome, result), Entered,
         \/ data = << >>
         \/ TooDeep
         \/ Char(pos) = "i" /\ IntAt(pos) = {}
         \/ IsDigit(Char(pos)) /\ StringAt(pos) = {}
         \/ ~IsDigit(Char(pos)) /\ Char(pos) \notin {"i", "l", "d"}
  PROVE  Len(data) < Len(Encode[v]) \/ Depth[v] > MaxDepth
  <1>1. /\ data \in Seq(Byte) /\ Len(data) \in Nat /\ Frames(stack) /\ Len(stack) \in Nat
        /\ MaxDepth \in Nat
    BY Facts
  <1>2. PICK vs, ps, m, u : ValueAt(data, v, pos, stack, vs, ps, m, u)
    BY <1>1, EnteredAtValue, AtValueFacts
  <1>3. /\ u \in Values /\ pos \in Nat \ {0} /\ Stands(data, pos, Encode[u])
        /\ Len(Encode[u]) \in Nat /\ Len(Encode[v]) \in Nat
        /\ pos + Len(Encode[u]) <= Len(Encode[v]) + 1
        /\ Depth[u] \in Nat /\ Depth[v] \in Nat /\ Depth[u] + Len(stack) <= Depth[v]
    BY <1>2 DEF ValueAt
  <1>4. Len(Encode[u]) >= 2
    BY <1>3, FirstByte
  <1>5. \/ pos > Len(data)
        \/ u.type = "int" /\ Char(pos) = "i"
        \/ u.type = "string" /\ IsDigit(Char(pos))
        \/ u.type = "list" /\ Char(pos) = "l"
        \/ u.type = "dict" /\ Char(pos) = "d"
    <2> SUFFICES ASSUME pos <= Len(data)
                 PROVE  \/ u.type = "int" /\ Char(pos) = "i"
                        \/ u.type = "string" /\ IsDigit(Char(pos))
                        \/ u.type = "list" /\ Char(pos) = "l"
                        \/ u.type = "dict" /\ Char(pos) = "d"
      BY <1>1, <1>3
    <2>1. Char(pos) = data[pos]
      BY DEF Char
    <2>2. pos \in Nat
      BY <1>3
    <2>3. QED
      BY <1>1, <1>3, <2>1, <2>2, ValueKind
  <1>6. CASE pos > Len(data)
    BY <1>1, <1>3, <1>4, <1>6
  <1>7. CASE data = << >>
    <2>1. Len(data) = 0
      BY <1>7
    <2>2. QED
      BY <1>1, <1>3, <1>4, <2>1
  <1>8. CASE TooDeep
    BY <1>1, <1>3, <1>8 DEF TooDeep
  <1>9. CASE pos <= Len(data) /\ Char(pos) = "i" /\ IntAt(pos) = {}
    <2>1. u.type = "int"
      BY <1>1, <1>3, <1>5, <1>9, DigitsAre
    <2> DEFINE i == u.int
               t == <<"i">> \o ToText(i) \o <<"e">>
    <2>2. i \in Int /\ InRange(i) /\ Encode[u] = t
      BY <1>3, <2>1, Variants, EncodeFacts
    <2>3. Stands(data, pos, t)
      BY <1>3, <2>2
    <2> HIDE DEF i
    <2>4. Len(t) = Len(ToText(i)) + 2 /\ ~(pos + Len(ToText(i)) + 1 <= Len(data))
      BY <1>1, <1>3, <1>9, <2>2, <2>3, IntegerRead
    <2>5. Len(ToText(i)) \in Nat
      BY <2>2, ToTextFacts
    <2> HIDE DEF t
    <2>6. QED
      BY <1>1, <1>3, <2>2, <2>4, <2>5
  <1>10. CASE pos <= Len(data) /\ IsDigit(Char(pos)) /\ StringAt(pos) = {}
    <2>1. u.type = "string"
      BY <1>1, <1>3, <1>5, <1>10, DigitsAre
    <2> DEFINE s == u.string
    <2>2. s \in Seq(Byte) /\ Encode[u] = EncodeString(s)
      BY <1>3, <2>1, Variants, EncodeFacts
    <2> HIDE DEF s
    <2>3. Stands(data, pos, EncodeString(s))
      BY <1>3, <2>2
    <2>4. pos + Len(Encode[u]) <= MaxSize + 1
      BY <1>3, SizeOfEncoding
    <2>5. ~(pos + Len(Encode[u]) - 1 <= Len(data))
      BY <1>1, <1>3, <1>10, <2>2, <2>3, <2>4, StringRead
    <2> DEFINE x == Len(Encode[u])
    <2>6. x \in Nat /\ pos + x <= Len(Encode[v]) + 1 /\ pos \in Nat
          /\ ~(pos + x - 1 <= Len(data)) /\ Len(Encode[v]) \in Nat
      BY <1>3, <2>5
    <2> HIDE DEF x
    <2>7. QED
      BY <1>1, <2>6
  <1>11. CASE pos <= Len(data) /\ ~IsDigit(Char(pos)) /\ Char(pos) \notin {"i", "l", "d"}
    BY <1>1, <1>3, <1>5, <1>11
  <1>12. QED
    BY <1>1, <1>3, <1>6, <1>7, <1>8, <1>9, <1>10, <1>11

\* What is refused in a loop: the text is cut off.
LEMMA LoopRefuses ==
  ASSUME ParserInv, NEW v \in Values, Parses(data, v, pos, stack, outcome, result), InLoop,
         ~AtEnd, pos > Len(data) \/ (InDict /\ StringAt(pos) = {})
  PROVE  Len(data) < Len(Encode[v])
  <1>1. /\ data \in Seq(Byte) /\ Len(data) \in Nat /\ Frames(stack) /\ Len(stack) \in Nat
        /\ pos \in Nat \ {0}
    BY Facts
  <1>2. PICK vs, ps, n, w, q, k : LoopAt(data, v, pos, stack, vs, ps, n, w, q, k)
    BY <1>1, InLoopAtLoop, AtLoopFacts
  <1>3. /\ Last(stack) = stack[n] /\ n \in Nat \ {0} /\ stack # << >>
        /\ Placed(data, v, n, w, q)
        /\ k \in Nat /\ Holds(stack[n], n, w, k, << >>)
        /\ pos = q + Offset(w, k)
    BY <1>2 DEF LoopAt
  <1>4. Container(w) /\ k \in 0 .. Count(w) /\ stack[n] = FrameOf(w, k, << >>) /\ w \in Values
    BY <1>3 DEF Holds, Placed
  <1>5. /\ pos <= Len(Encode[v]) /\ Len(Encode[v]) \in Nat
        /\ pos <= Len(data) => (data[pos] = "e" <=> k = Count(w))
    BY <1>1, <1>3, <1>4, LoopByte
  <1>6. CASE pos > Len(data)
    BY <1>1, <1>5, <1>6
  <1>7. CASE pos <= Len(data) /\ InDict /\ StringAt(pos) = {}
    <2>1. w.type = "dict"
      <3> SUFFICES ASSUME w.type = "list" PROVE FALSE
        BY <1>4 DEF Container
      <3>1. Top.id = "l"
        BY <1>3, <1>4, FrameKind DEF Top
      <3>2. QED
        BY <1>7, <3>1 DEF InDict
    <2>2. k # Count(w)
      BY <1>5, <1>7 DEF AtEnd
    <2> DEFINE j == k + 1
    <2>3. j \in Nat /\ j = k + 1 /\ j <= Count(w)
      <3>1. Count(w) \in Nat
        BY <1>4, ContainerFacts
      <3>2. QED
        BY <1>3, <1>4, <2>2, <3>1
    <2> HIDE DEF j
    <2> DEFINE s == KeysOf(w)[j]
    <2>4. /\ s \in Seq(Byte) /\ Stands(data, pos, EncodeString(s))
          /\ Len(EncodeString(s)) \in Nat
          /\ pos + Len(EncodeString(s)) <= Len(Encode[v])
      BY <1>1, <1>3, <1>4, <2>1, <2>3, KeyStands
    <2> HIDE DEF s
    <2>5. pos + Len(EncodeString(s)) <= MaxSize + 1
      <3>1. pos + Len(EncodeString(s)) <= Len(Encode[v]) + 1
        BY <1>1, <1>5, <2>4
      <3>2. QED
        BY <1>1, <2>4, <3>1, SizeOfEncoding
    <2>6. ~(pos + Len(EncodeString(s)) - 1 <= Len(data))
      BY <1>1, <1>7, <2>4, <2>5, StringRead
    <2>7. QED
      BY <1>1, <1>5, <2>4, <2>6
  <1>8. QED
    BY <1>1, <1>6, <1>7

LEMMA ThrowParses ==
  ASSUME ParserInv, NEW v \in Values, Parses(data, v, pos, stack, outcome, result), Throw
  PROVE  Parses(data', v, pos', stack', outcome', result')
  <1>1. Len(data) < Len(Encode[v]) \/ Depth[v] > MaxDepth
    <2>1. \/ InLoop /\ ~AtEnd /\ (pos > Len(data) \/ (InDict /\ StringAt(pos) = {}))
          \/ /\ Entered
             /\ \/ data = << >>
                \/ TooDeep
                \/ Char(pos) = "i" /\ IntAt(pos) = {}
                \/ IsDigit(Char(pos)) /\ StringAt(pos) = {}
                \/ ~IsDigit(Char(pos)) /\ Char(pos) \notin {"i", "l", "d"}
      <3>1. \/ Entered /\ (data = << >> \/ TooDeep)
            \/ Dispatch /\ Char(pos) = "i" /\ IntAt(pos) = {}
            \/ Dispatch /\ IsDigit(Char(pos)) /\ StringAt(pos) = {}
            \/ Dispatch /\ ~IsDigit(Char(pos)) /\ Char(pos) \notin {"i", "l", "d"}
            \/ InLoop /\ ~AtEnd /\ pos > Len(data)
            \/ InLoop /\ InDict /\ ~AtEnd /\ StringAt(pos) = {}
        BY DEF Throw, Malformed
      <3>2. Dispatch => Entered
        BY DEF Dispatch
      <3> DEFINE A == data = << >>
                 B == Char(pos) = "i" /\ IntAt(pos) = {}
                 C == IsDigit(Char(pos)) /\ StringAt(pos) = {}
                 D == ~IsDigit(Char(pos)) /\ Char(pos) \notin {"i", "l", "d"}
                 E == pos > Len(data)
                 F == StringAt(pos) = {}
      <3>3. \/ Entered /\ (A \/ TooDeep)
            \/ Dispatch /\ B
            \/ Dispatch /\ C
            \/ Dispatch /\ D
            \/ InLoop /\ ~AtEnd /\ E
            \/ InLoop /\ InDict /\ ~AtEnd /\ F
        BY <3>1
      <3> HIDE DEF A, B, C, D, E, F
      <3>4. \/ InLoop /\ ~AtEnd /\ (E \/ (InDict /\ F))
            \/ Entered /\ (A \/ TooDeep \/ B \/ C \/ D)
        BY <3>2, <3>3
      <3>5. QED
        BY <3>4 DEF A, B, C, D, E, F
    <2>2. CASE InLoop /\ ~AtEnd /\ (pos > Len(data) \/ (InDict /\ StringAt(pos) = {}))
      BY <2>2, LoopRefuses
    <2>3. CASE /\ Entered
               /\ \/ data = << >>
                  \/ TooDeep
                  \/ Char(pos) = "i" /\ IntAt(pos) = {}
                  \/ IsDigit(Char(pos)) /\ StringAt(pos) = {}
                  \/ ~IsDigit(Char(pos)) /\ Char(pos) \notin {"i", "l", "d"}
      BY <2>3, EnteredRefuses
    <2>4. QED
      BY <2>1, <2>2, <2>3
  <1>2. data' = data /\ outcome' = "thrown"
    BY DEF Throw
  <1>3. QED
    BY <1>1, <1>2 DEF Parses

-----------------------------------------------------------------------------
(* parse() undoes encode() *)

\* A run over a text that agrees with the encoding of a value as far as either
\* goes is on its way to that value.
RoundTrip ==
  \A v \in Values :
    Stands(data, 1, Encode[v]) => Parses(data, v, pos, stack, outcome, result)

\* The start of a run, and every step.
LEMMA RoundTripStarts ==
  ParserInit => RoundTrip
  <1> SUFFICES ASSUME ParserInit, NEW v \in Values, Stands(data, 1, Encode[v])
               PROVE  Parses(data, v, pos, stack, outcome, result)
    BY DEF RoundTrip
  <1>1. pos = 1 /\ stack = << >> /\ outcome = "running"
    BY DEF ParserInit
  <1>2. AtValue(data, v, 1, << >>) /\ KeyIsRead(<< >>)
    BY PathStarts
  <1>3. QED
    BY <1>1, <1>2 DEF Parses

LEMMA RoundTripKeeps ==
  ASSUME ParserInv, RoundTrip, [ParserNext]_parserVars
  PROVE  RoundTrip'
  <1>1. data' = data
    BY DEF ParserNext, ParseInt, ParseString, Open, ParseKey, Close, Throw, parserVars
  <1>2. ASSUME NEW v \in Values, Stands(data, 1, Encode[v])
        PROVE  Parses(data', v, pos', stack', outcome', result')
    <2>1. Parses(data, v, pos, stack, outcome, result)
      BY <1>2 DEF RoundTrip
    <2>2. CASE ParseInt
      BY <2>1, <2>2, ParseIntParses
    <2>3. CASE ParseString
      BY <2>1, <2>3, ParseStringParses
    <2>4. CASE Open
      BY <2>1, <2>4, OpenParses
    <2>5. CASE ParseKey
      BY <2>1, <2>5, ParseKeyParses
    <2>6. CASE Close
      BY <2>1, <2>6, CloseParses
    <2>7. CASE Throw
      BY <2>1, <2>7, ThrowParses
    <2>8. CASE UNCHANGED parserVars
      BY <2>1, <2>8 DEF parserVars
    <2>9. QED
      BY <2>2, <2>3, <2>4, <2>5, <2>6, <2>7, <2>8 DEF ParserNext
  <1>3. QED
    BY <1>1, <1>2 DEF RoundTrip

\* A text that is longer than an encoding and starts with it, and one that is
\* cut off.
LEMMA PrefixStands ==
  ASSUME NEW d \in Seq(Byte), NEW t \in Seq(Byte)
  PROVE  /\ IsPrefix(t, d) => Stands(d, 1, t) /\ Len(t) <= Len(d)
         /\ IsStrictPrefix(d, t) => Stands(d, 1, t) /\ Len(d) < Len(t)
  <1>1. Len(d) \in Nat /\ Len(t) \in Nat
    OBVIOUS
  <1>2. \A i \in Nat : 1 + i - 1 = i
    OBVIOUS
  <1>3. ASSUME IsPrefix(t, d) PROVE Stands(d, 1, t) /\ Len(t) <= Len(d)
    BY <1>1, <1>2, <1>3 DEF IsPrefix, Stands
  <1>4. ASSUME IsStrictPrefix(d, t) PROVE Stands(d, 1, t) /\ Len(d) < Len(t)
    BY <1>1, <1>2, <1>4 DEF IsStrictPrefix, IsPrefix, Stands
  <1>5. QED
    BY <1>3, <1>4

\* The run's end.
LEMMA RoundTripIs ==
  ASSUME ParserInv, RoundTrip
  PROVE  EncodedIsRecovered /\ TruncatedIsRefused
  <1>1. data \in Seq(Byte) /\ Len(data) \in Nat /\ MaxDepth \in Nat
    BY Facts
  <1>2. ASSUME NEW v \in Values, ~Running
        PROVE  /\ Encode[v] \in Seq(Byte) /\ Len(Encode[v]) \in Nat /\ Depth[v] \in Nat
               /\ Stands(data, 1, Encode[v]) =>
                    \/ result = <<v>> /\ Len(Encode[v]) <= Len(data) /\ Depth[v] <= MaxDepth
                    \/ outcome = "thrown" /\ (Len(data) < Len(Encode[v]) \/ Depth[v] > MaxDepth)
    <2>1. Encode[v] \in Seq(Byte) /\ Len(Encode[v]) \in Nat /\ Depth[v] \in Nat
      BY EncodeFacts, DepthAssumption
    <2>2. outcome \in {"returned", "thrown"}
      BY <1>2 DEF Running, ParserInv, ParserTypeOK
    <2>3. QED
      BY <2>1, <2>2 DEF RoundTrip, Parses
  <1>3. EncodedIsRecovered
    BY <1>1, <1>2, PrefixStands DEF EncodedIsRecovered
  <1>4. TruncatedIsRefused
    BY <1>1, <1>2, PrefixStands DEF TruncatedIsRefused
  <1>5. QED
    BY <1>3, <1>4

\* The invariants of every run.
LEMMA ParserAlways ==
  ParserSpec => [](ParserInv /\ RoundTrip)
  <1>1. ParserInit => ParserInv /\ RoundTrip
    BY InitShape, RoundTripStarts
  <1>2. ParserInv /\ RoundTrip /\ [ParserNext]_parserVars => ParserInv' /\ RoundTrip'
    BY InvKeeps, RoundTripKeeps
  <1>3. QED
    BY <1>1, <1>2, PTL DEF ParserSpec

\* parse() undoes encode(), for every value that encode() can be given, every
\* text that starts with its encoding and every recursion limit: the value
\* comes back, whatever follows it, unless it is nested deeper than
\* MAX_RECURSION_DEPTH; then parse() throws.
THEOREM ParseUndoesEncode == ParserSpec => []EncodedIsRecovered
  <1>1. ParserInv /\ RoundTrip => EncodedIsRecovered
    BY RoundTripIs
  <1>2. QED
    BY <1>1, ParserAlways, PTL

\* A text that ends before the encoding of a value does is refused, wherever it
\* is cut off: in a number, a length, a string, or between two elements.
THEOREM CutOffIsRefused == ParserSpec => []TruncatedIsRefused
  <1>1. ParserInv /\ RoundTrip => TruncatedIsRefused
    BY RoundTripIs
  <1>2. QED
    BY <1>1, ParserAlways, PTL
=============================================================================

-------------------------- MODULE RoundTripProofs ---------------------------
(***************************************************************************)
(* For every set of types and all bytes offered: a type has one encoding,  *)
(* and what a marshal function returns is how long that is.                *)
(***************************************************************************)
EXTENDS MarshalProofs

(* The bytes of a word, put together and taken apart.                      *)
LEMMA WordOfBytes ==
  \A x, y \in Byte : (256 * x + y) \div 256 = x /\ (256 * x + y) % 256 = y /\ x % 256 = x
BY DEF Byte

(* An integer read from its bytes is written as the same bytes.            *)
LEMMA BytesBack ==
  ASSUME NEW b \in Seq(Byte), Len(b) \in {1, 2, 4, 8}
  PROVE  /\ FromBytes(b) \in Seq(Word) /\ Len(FromBytes(b)) = WordsOf(Len(b))
         /\ ToBytes(FromBytes(b), Len(b)) = b
<1>0. \A i \in 1 .. Len(b) : b[i] \in Byte
  BY ElementOfSeq
<1>1. CASE Len(b) = 1
  <2>1. FromBytes(b) = b /\ b[1] \in Byte /\ b \in Seq(Word)
    BY <1>0, <1>1, BytesAreWords, SeqMonotonic DEF FromBytes
  <2>2. ToBytes(b, 1) = <<b[1]>>
    BY <2>1, WordOfBytes DEF ToBytes
  <2>3. b = <<b[1]>>
    BY <1>1
  <2> QED  BY <1>1, <2>1, <2>2, <2>3 DEF WordsOf
<1>2. CASE Len(b) # 1
  <2>1. PICK n \in {1, 2, 4} : Len(b) = 2 * n
    BY <1>2
  <2>2. Len(b) \div 2 = n
    BY <2>1
  <2> DEFINE f == [i \in 1 .. n |-> 256 * b[2 * i - 1] + b[2 * i]]
  <2>3. FromBytes(b) = f
    BY <1>2, <2>2 DEF FromBytes
  <2>4. f \in Seq(Word) /\ Len(f) = n
    <3>1. f \in [1 .. n -> Word]
      <4>1. \A i \in 1 .. n : b[2 * i - 1] \in Byte /\ b[2 * i] \in Byte
        BY <1>0, <2>1
      <4>2. \A i \in 1 .. n : 256 * b[2 * i - 1] + b[2 * i] \in Word
        BY <4>1, WordOfTwo, Zenon
      <4> QED  BY <4>2
    <3> QED  BY <3>1, FunctionIsSeq
  <2>5. \A i \in 1 .. Len(b) :
          (IF i % 2 = 1 THEN f[(i + 1) \div 2] \div 256 ELSE f[i \div 2] % 256) = b[i]
    <3>1. ASSUME NEW i \in 1 .. Len(b), i % 2 = 1
          PROVE  f[(i + 1) \div 2] \div 256 = b[i]
      <4>1. PICK j \in 1 .. n : i = 2 * j - 1 /\ (i + 1) \div 2 = j
        BY <2>1, <3>1
      <4>2. f[j] = 256 * b[i] + b[i + 1] /\ i + 1 \in 1 .. Len(b)
        BY <2>1, <4>1
      <4> QED  BY <1>0, <4>1, <4>2, WordOfBytes
    <3>2. ASSUME NEW i \in 1 .. Len(b), i % 2 # 1
          PROVE  f[i \div 2] % 256 = b[i]
      <4>1. PICK j \in 1 .. n : i = 2 * j /\ i \div 2 = j
        BY <2>1, <3>2
      <4>2. f[j] = 256 * b[i - 1] + b[i] /\ i - 1 \in 1 .. Len(b)
        BY <2>1, <4>1
      <4> QED  BY <1>0, <4>1, <4>2, WordOfBytes
    <3> QED  BY <3>1, <3>2
  <2> HIDE DEF f
  <2>6. ToBytes(f, Len(b)) = [i \in 1 .. Len(b) |-> b[i]]
    BY <1>2, <2>5 DEF ToBytes
  <2>7. b = [i \in 1 .. Len(b) |-> b[i]]
    BY LenProperties
  <2>8. WordsOf(Len(b)) = n
    BY <1>2, <2>2 DEF WordsOf
  <2> QED  BY <2>3, <2>4, <2>6, <2>7, <2>8
<1> QED  BY <1>1, <1>2

-----------------------------------------------------------------------------
(* A point of a reading call: the tasks still to come, the values and the  *)
(* bytes read so far.                                                      *)
Point == [todo : Seq(Task), n : Nat, o : Nat]

Here == [todo |-> todo, n |-> Len(value), o |-> Len(input)]

(* The bytes s are those of b from offset o on.                            *)
Found(b, s, o) == \A i \in 1 .. Len(s) : o + i \in DOMAIN b /\ b[o + i] = s[i]

(* From point c to d the next of the values v was read, in the bytes s of  *)
(* b; or nothing was.                                                      *)
Takes(c, d, v, b, calls, s) ==
  /\ c.n + 1 \in DOMAIN v
  /\ Found(b, s, c.o)
  /\ d = [todo |-> calls \o Tail(c.todo), n |-> c.n + 1, o |-> c.o + Len(s)]

Stays(c, d, calls) == d = [todo |-> calls \o Tail(c.todo), n |-> c.n, o |-> c.o]

(* One step from c to d of a call that read the values v from the bytes b  *)
(* of a buffer of size m, seen after the call: one case for each action of *)
(* Unmarshal that may succeed.                                             *)
IntegerTaken(c, d, v, b) ==
  /\ KindOf(Head(c.todo)) = "integer"
  /\ Takes(c, d, v, b, << >>, ToBytes(v[c.n + 1], Schema[Head(c.todo).type].width))

SizeTaken(c, d, v, b) ==
  /\ KindOf(Head(c.todo)) = "buffer"
  /\ Takes(c, d, v, b, <<ArrayOf(Head(c.todo).type, Number(v[c.n + 1]))>>,
           ToBytes(v[c.n + 1], Schema[Head(c.todo).type].width))

BytesTaken(c, d, v, b) ==
  /\ KindOf(Head(c.todo)) = "bytes"
  /\ Takes(c, d, v, b, << >>, v[c.n + 1])

CountTaken(c, d, v, b) ==
  /\ KindOf(Head(c.todo)) = "list"
  /\ Takes(c, d, v, b,
           Repeated(Schema[Head(c.todo).type].element, Number(v[c.n + 1])),
           ToBytes(v[c.n + 1], Schema[Head(c.todo).type].width))

StructEntered(c, d) ==
  /\ KindOf(Head(c.todo)) = "struct"
  /\ Stays(c, d, CallsFor(Schema[Head(c.todo).type].fields, Head(c.todo).flag, c.n + 1))

UnionEntered(c, d, v) ==
  /\ KindOf(Head(c.todo)) = "union"
  /\ Head(c.todo).at \in DOMAIN v
  /\ v[Head(c.todo).at] \in DOMAIN Schema[Head(c.todo).type].arms
  /\ Stays(c, d, <<CallFor(Schema[Head(c.todo).type].arms[v[Head(c.todo).at]], FALSE, 1)>>)

EmptyTaken(c, v) ==
  /\ KindOf(Head(c.todo)) = "sized"
  /\ c.n + 2 \in DOMAIN v /\ v[c.n + 2] = Untouched

HeaderTaken(c, d, v, b, m) ==
  /\ KindOf(Head(c.todo)) = "sized"
  /\ Len(v[c.n + 1]) = 1
  /\ c.o + 2 <= m
  /\ Takes(c, d, v, b,
           <<CallFor(Schema[Head(c.todo).type].element, Head(c.todo).flag, 1),
             CloseOf(Head(c.todo).type, Number(v[c.n + 1]), m - c.o - 2)>>,
           ToBytes(v[c.n + 1], 2))

SizeHeld(c, d, m) ==
  /\ KindOf(Head(c.todo)) = "close"
  /\ Head(c.todo).n = Head(c.todo).at - (m - c.o)
  /\ Stays(c, d, << >>)

Follows(c, d, v, b, m) ==
  /\ c.todo # << >>
  /\ \/ IntegerTaken(c, d, v, b) \/ SizeTaken(c, d, v, b)
     \/ BytesTaken(c, d, v, b) \/ CountTaken(c, d, v, b)
     \/ StructEntered(c, d) \/ UnionEntered(c, d, v)
     \/ EmptyTaken(c, v) \/ HeaderTaken(c, d, v, b, m) \/ SizeHeld(c, d, m)

(* The history of a call of type r that has come to point c: the points it *)
(* went through, one step after the other.                                 *)
Starts(c, r) ==
  \E flag \in BOOLEAN :
    c = [todo |-> <<CallFor([type |-> r, flag |-> "same", selector |-> 1], flag, 1)>>,
         n |-> 0, o |-> 0]

Chain(h, v, b, m) == \A i \in 1 .. Len(h) - 1 : Follows(h[i], h[i + 1], v, b, m)

History(h, r, c, v, b, m) ==
  /\ h \in Seq(Point) /\ h # << >>
  /\ Starts(h[1], r) /\ h[Len(h)] = c
  /\ Chain(h, v, b, m)

(* What was read explains where a call is that has not failed.             *)
ReadIsExplained == rc = "TPM_RC_SUCCESS" => \E h : History(h, root, Here, value, input, length)

(* The selector of a union was read, or is among the integers that come    *)
(* first.                                                                  *)
Selected(s, n) ==
  \A i \in 1 .. Len(s) : KindOf(s[i]) = "union" =>
    /\ s[i].at \in Nat \ {0} /\ s[i].at < n + i
    /\ \A j \in 1 .. s[i].at - n : KindOf(s[j]) = "integer"

ReadInv ==
  /\ length \in Lengths
  /\ todo # << >> => rc = "TPM_RC_SUCCESS"
  /\ ReadIsExplained
  /\ Selected(todo, Len(value))

(* A sequence that begins with the elements of s.                          *)
Continues(s, t) == DOMAIN s \subseteq DOMAIN t /\ \A i \in DOMAIN s : t[i] = s[i]

(* The bytes just read are found at the end of those read before.          *)
LEMMA FoundNow ==
  ASSUME NEW b \in Seq(Byte), NEW e \in Seq(Byte)
  PROVE  Found(b \o e, e, Len(b))
BY ConcatProperties DEF Found
(* What was put at the end of a sequence leaves it where it was.           *)
LEMMA ConcatContinues ==
  ASSUME NEW S, NEW s \in Seq(S), NEW t \in Seq(S)
  PROVE  Continues(s, s \o t)
BY ConcatProperties DEF Continues

(* A step taken is the same step when more was read after it.              *)
LEMMA FollowsStill ==
  ASSUME NEW c \in Point, NEW d, NEW v, NEW v2, NEW b, NEW b2, NEW m,
         Continues(v, v2), Continues(b, b2), Follows(c, d, v, b, m)
  PROVE  Follows(c, d, v2, b2, m)
<1>1. \A s, o : Found(b, s, o) => Found(b2, s, o)
  BY DEF Found, Continues
<1>2. \A i \in DOMAIN v : i \in DOMAIN v2 /\ v2[i] = v[i]
  BY DEF Continues
<1>3. \A calls, s : Takes(c, d, v, b, calls, s) =>
        Takes(c, d, v2, b2, calls, s) /\ v2[c.n + 1] = v[c.n + 1]
  BY <1>1, <1>2 DEF Takes
<1>4. IntegerTaken(c, d, v, b) => IntegerTaken(c, d, v2, b2)
  BY <1>3, Zenon DEF IntegerTaken
<1>5. SizeTaken(c, d, v, b) => SizeTaken(c, d, v2, b2)
  BY <1>3, Zenon DEF SizeTaken
<1>6. BytesTaken(c, d, v, b) => BytesTaken(c, d, v2, b2)
  BY <1>3, Zenon DEF BytesTaken
<1>7. CountTaken(c, d, v, b) => CountTaken(c, d, v2, b2)
  BY <1>3, Zenon DEF CountTaken
<1>8. UnionEntered(c, d, v) => UnionEntered(c, d, v2)
  BY <1>2, Zenon DEF UnionEntered
<1>9. EmptyTaken(c, v) => EmptyTaken(c, v2)
  BY <1>2, Zenon DEF EmptyTaken
<1>10. HeaderTaken(c, d, v, b, m) => HeaderTaken(c, d, v2, b2, m)
  BY <1>3, Zenon DEF HeaderTaken
<1> QED  BY <1>4, <1>5, <1>6, <1>7, <1>8, <1>9, <1>10, Zenon DEF Follows

(* The integer at hand is found where it was read, and written with the    *)
(* same bytes.                                                             *)
LEMMA FetchTakes ==
  ASSUME UTypeOK, todo # << >>, NEW b \in Offered[root][Head(todo).type],
         KindOf(Head(todo)) \in {"integer", "buffer", "list", "sized"},
         input' = input \o b, value' = Append(value, FromBytes(b)),
         NEW calls \in Seq(Task), Continue(calls)
  PROVE  /\ value'[Here.n + 1] = FromBytes(b) /\ Number(FromBytes(b)) \in Nat
         /\ Len(FromBytes(b)) = WordsOf(Desc.width)
         /\ Takes(Here, Here', value', input', calls,
                  ToBytes(value'[Here.n + 1], Schema[Head(Here.todo).type].width))
<1>1. Desc.kind = KindOf(Head(todo)) /\ Desc.width \in {1, 2, 4, 8}
  BY HeadTask, TaskFacts DEF Desc, Shape
<1>2. b \in Seq(Byte) /\ Len(b) = Desc.width
  BY <1>1, HeadTask, OfferedAssumption DEF Desc, UTypeOK
<1>3. input' = input \o b /\ value' = Append(value, FromBytes(b)) /\ todo' = calls \o Tail(todo)
  BY DEF Continue
<1>4. ToBytes(FromBytes(b), Desc.width) = b /\ Len(FromBytes(b)) = WordsOf(Desc.width)
  BY <1>1, <1>2, BytesBack
<1>5. input \in Seq(Byte) /\ value \in Seq(Value)
  BY DEF UTypeOK
<1>6. Number(FromBytes(b)) \in Nat /\ FromBytes(b) \in Value
  BY <1>1, FetchFacts
<1>7. /\ Len(value') = Len(value) + 1 /\ Len(value) + 1 \in DOMAIN value'
      /\ value'[Len(value) + 1] = FromBytes(b)
  BY <1>3, <1>5, <1>6
<1>8. Len(input') = Len(input) + Len(b)
  BY <1>2, <1>3, <1>5, ConcatProperties
<1>9. Found(input', b, Len(input))
  BY <1>2, <1>3, <1>5, FoundNow
<1>10. Here.n = Len(value) /\ Here.o = Len(input) /\ Here.todo = todo
  BY DEF Here
<1>11. Here' = [todo |-> calls \o Tail(todo), n |-> Len(value) + 1, o |-> Len(input) + Len(b)]
  BY <1>3, <1>7, <1>8 DEF Here
<1> QED  BY <1>4, <1>6, <1>7, <1>9, <1>10, <1>11, Zenon DEF Takes, Desc
(* A step that fails does not return TPM_RC_SUCCESS.                       *)
LEMMA FailedCall ==
  ASSUME NEW code, Fail(code), code # "TPM_RC_SUCCESS"
  PROVE  rc' # "TPM_RC_SUCCESS"
BY DEF Fail

(* Every step of a call that does not fail is one of those the history is  *)
(* made of, and leaves what was read before it where it was.               *)
LEMMA ReadFollows ==
  ASSUME UTypeOK, ReadsStayInside, UNext, Selected(todo, Len(value)),
         rc' = "TPM_RC_SUCCESS"
  PROVE  /\ Follows(Here, Here', value', input', length)
         /\ Continues(value, value') /\ Continues(input, input')
         /\ length' = length /\ root' = root
<1>a. input \in Seq(Byte) /\ value \in Seq(Value) /\ << >> \in Seq(Task)
      /\ todo \in Seq(Task)
  BY EmptySeq DEF UTypeOK
<1>b. Here.n = Len(value) /\ Here.o = Len(input) /\ Here.todo = todo
  BY DEF Here
<1>c. ASSUME todo # << >>, NEW b \in Offered[root][Head(todo).type],
             KindOf(Head(todo)) \in {"integer", "buffer", "list", "sized"},
             input' = input \o b, value' \in {Append(value, FromBytes(b)),
                                              value \o <<FromBytes(b), Untouched>>}
      PROVE  Continues(value, value') /\ Continues(input, input')
  <2>1. Desc.kind = KindOf(Head(todo))
    BY <1>c, HeadTask, TaskFacts DEF Desc
  <2>2. b \in Seq(Byte)
    BY <1>c, <2>1, HeadTask, OfferedAssumption DEF Desc, UTypeOK
  <2>3. FromBytes(b) \in Value /\ Untouched \in Value
    BY <1>c, FetchFacts DEF Value
  <2>4. /\ value' \in {value \o <<FromBytes(b)>>, value \o <<FromBytes(b), Untouched>>}
        /\ <<FromBytes(b)>> \in Seq(Value) /\ <<FromBytes(b), Untouched>> \in Seq(Value)
    <3>1. \A x \in Value : Append(value, x) = value \o <<x>>
      BY <1>a, AppendIsConcat
    <3>2. <<FromBytes(b)>> \in Seq(Value) /\ <<FromBytes(b), Untouched>> \in Seq(Value)
      BY <2>3
    <3> QED  BY <1>c, <2>3, <3>1, <3>2
  <2>5. Continues(value, value')
    <3>1. \A t \in Seq(Value) : Continues(value, value \o t)
      BY <1>a, ConcatContinues, Zenon
    <3> QED  BY <2>4, <3>1
  <2>6. Continues(input, input')
    BY <1>a, <1>c, <2>2, ConcatContinues
  <2> QED  BY <2>5, <2>6
<1>d. UNCHANGED <<input, value>> => Continues(value, value') /\ Continues(input, input')
  BY DEF Continues
<1>1. CASE TooShort
  BY <1>1, FailedCall DEF TooShort
<1>2. CASE ReadInteger
  <2>1. todo # << >> /\ KindOf(Head(todo)) = "integer"
    BY <1>2 DEF ReadInteger, Doing
  <2>2. PICK b \in Offered[root][Head(todo).type] :
          /\ Fetch(b)
          /\ \/ Continue(<< >>)
             \/ Fail(Desc.code) /\ Desc.code # "TPM_RC_SUCCESS"
    BY <1>2 DEF ReadInteger, Allowed
  <2>3. Continue(<< >>)
    BY <2>2, FailedCall
  <2>4. /\ input' = input \o b /\ value' = Append(value, FromBytes(b))
        /\ UNCHANGED <<root, length>>
    BY <2>2 DEF Fetch
  <2>5. Takes(Here, Here', value', input', << >>,
              ToBytes(value'[Here.n + 1], Schema[Head(Here.todo).type].width))
    BY <1>a, <2>1, <2>3, <2>4, FetchTakes
  <2>6. IntegerTaken(Here, Here', value', input')
    BY <1>b, <2>1, <2>5, Zenon DEF IntegerTaken
  <2> QED  BY <1>b, <1>c, <2>1, <2>4, <2>6 DEF Follows
<1>3. CASE ReadBufferSize
  <2>1. todo # << >> /\ KindOf(Head(todo)) = "buffer"
    BY <1>3 DEF ReadBufferSize, Doing
  <2>2. Desc.code # "TPM_RC_SUCCESS"
    BY <2>1, HeadTask, TaskFacts DEF Desc, Shape
  <2>3. PICK b \in Offered[root][Head(todo).type] :
          /\ Fetch(b)
          /\ \/ Continue(<<ArrayOf(Head(todo).type, Number(FromBytes(b)))>>)
             \/ Fail(Desc.code)
    BY <1>3 DEF ReadBufferSize
  <2>4. /\ input' = input \o b /\ value' = Append(value, FromBytes(b))
        /\ UNCHANGED <<root, length>>
    BY <2>3 DEF Fetch
  <2> DEFINE calls == <<ArrayOf(Head(todo).type, Number(FromBytes(b)))>>
  <2>5. Continue(calls)
    BY <2>2, <2>3, FailedCall
  <2>6. calls \in Seq(Task)
    BY <2>1, FetchFacts, HeadTask, ArrayOfType
  <2>7. /\ value'[Here.n + 1] = FromBytes(b)
        /\ Takes(Here, Here', value', input', calls,
                 ToBytes(value'[Here.n + 1], Schema[Head(Here.todo).type].width))
    <3> HIDE DEF calls
    <3> QED  BY <2>1, <2>4, <2>5, <2>6, FetchTakes
  <2>8. SizeTaken(Here, Here', value', input')
    BY <1>b, <2>1, <2>7, Zenon DEF SizeTaken
  <2> QED  BY <1>b, <1>c, <2>1, <2>4, <2>8 DEF Follows
<1>4. CASE ReadBytes
  <2> DEFINE n == CountOf(Head(todo))
  <2>1. todo # << >> /\ KindOf(Head(todo)) = "bytes"
    BY <1>4 DEF ReadBytes, Doing
  <2>2. /\ input' = input \o Contents(n) /\ value' = Append(value, Contents(n))
        /\ Continue(<< >>) /\ UNCHANGED <<root, length>>
    BY <1>4, FailedCall DEF ReadBytes
  <2>3. n \in Nat
    BY <2>1, HeadTask, TaskFacts
  <2> HIDE DEF n
  <2>4. /\ Contents(n) \in Seq(Byte) /\ Contents(n) \in Value
    BY <2>3, ContentsType DEF Value
  <2>5. /\ value' = value \o <<Contents(n)>> /\ <<Contents(n)>> \in Seq(Value)
        /\ Len(value') = Len(value) + 1 /\ Len(value) + 1 \in DOMAIN value'
        /\ value'[Len(value) + 1] = Contents(n)
    BY <1>a, <2>2, <2>4
  <2>6. Continues(value, value') /\ Continues(input, input')
    BY <1>a, <2>2, <2>4, <2>5, ConcatContinues
  <2>7. Found(input', Contents(n), Len(input)) /\ Len(input') = Len(input) + Len(Contents(n))
    BY <1>a, <2>2, <2>4, FoundNow, ConcatProperties
  <2>8. Takes(Here, Here', value', input', << >>, value'[Here.n + 1])
    <3>1. Here' = [todo |-> << >> \o Tail(todo), n |-> Len(value) + 1,
                   o |-> Len(input) + Len(Contents(n))]
      BY <2>2, <2>5, <2>7 DEF Here, Continue
    <3> QED  BY <1>b, <2>5, <2>7, <3>1, Zenon DEF Takes
  <2>9. BytesTaken(Here, Here', value', input')
    BY <1>b, <2>1, <2>8, Zenon DEF BytesTaken
  <2> QED  BY <1>b, <2>1, <2>2, <2>6, <2>9 DEF Follows
<1>5. CASE ReadListCount
  <2>1. todo # << >> /\ KindOf(Head(todo)) = "list"
    BY <1>5 DEF ReadListCount, Doing
  <2>2. Desc.code # "TPM_RC_SUCCESS" /\ Desc.element \in Field
    BY <2>1, HeadTask, TaskFacts DEF Desc, Shape
  <2>3. PICK b \in Offered[root][Head(todo).type] :
          /\ Fetch(b)
          /\ \/ Continue(Repeated(Desc.element, Number(FromBytes(b))))
             \/ Fail(Desc.code)
    BY <1>5 DEF ReadListCount
  <2>4. /\ input' = input \o b /\ value' = Append(value, FromBytes(b))
        /\ UNCHANGED <<root, length>>
    BY <2>3 DEF Fetch
  <2> DEFINE calls == Repeated(Desc.element, Number(FromBytes(b)))
  <2>5. Continue(calls)
    BY <2>2, <2>3, FailedCall
  <2>6. calls \in Seq(Task)
    BY <2>1, <2>2, FetchFacts, RepeatedType, CallsAreTasks
  <2>7. /\ value'[Here.n + 1] = FromBytes(b)
        /\ Takes(Here, Here', value', input', calls,
                 ToBytes(value'[Here.n + 1], Schema[Head(Here.todo).type].width))
    <3> HIDE DEF calls
    <3> QED  BY <2>1, <2>4, <2>5, <2>6, FetchTakes
  <2>8. CountTaken(Here, Here', value', input')
    BY <1>b, <2>1, <2>7, Zenon DEF CountTaken, Desc
  <2> QED  BY <1>b, <1>c, <2>1, <2>4, <2>8 DEF Follows
<1>6. CASE ReadStruct
  <2>1. /\ todo # << >> /\ KindOf(Head(todo)) = "struct"
        /\ todo' = CallsFor(Desc.fields, Head(todo).flag, Len(value) + 1) \o Tail(todo)
        /\ UNCHANGED <<root, length, size, input, value>>
    BY <1>6 DEF ReadStruct, Doing, Continue
  <2>2. Here' = [todo |-> CallsFor(Desc.fields, Head(todo).flag, Len(value) + 1) \o Tail(todo),
                 n |-> Len(value), o |-> Len(input)]
    BY <2>1 DEF Here
  <2>3. StructEntered(Here, Here')
    BY <1>b, <2>1, <2>2, Zenon DEF StructEntered, Stays, Desc
  <2> QED  BY <1>b, <1>d, <2>1, <2>3 DEF Follows
<1>7. CASE ReadUnion
  <2> DEFINE w == value[Head(todo).at]
  <2>1. /\ todo # << >> /\ KindOf(Head(todo)) = "union"
        /\ UNCHANGED <<root, length, size, input, value>>
    BY <1>7 DEF ReadUnion, Doing
  <2>2. w \in DOMAIN Desc.arms /\ Continue(<<CallFor(Desc.arms[w], FALSE, 1)>>)
    BY <1>7, FailedCall DEF ReadUnion
  <2>3. Head(todo).at \in DOMAIN value
    <3>1. todo[1] = Head(todo) /\ 1 \in 1 .. Len(todo)
      BY <1>a, <2>1, HeadTailProperties
    <3>2. /\ Head(todo).at \in Nat \ {0} /\ Head(todo).at < Len(value) + 1
      BY <2>1, <3>1 DEF Selected
    <3>3. Len(value) \in Nat /\ DOMAIN value = 1 .. Len(value)
      BY <1>a, LenProperties
    <3> QED  BY <3>2, <3>3
  <2>4. Here' = [todo |-> <<CallFor(Desc.arms[w], FALSE, 1)>> \o Tail(todo),
                 n |-> Len(value), o |-> Len(input)]
    BY <2>1, <2>2 DEF Here, Continue
  <2>5. UnionEntered(Here, Here', value)
    BY <1>b, <2>1, <2>2, <2>3, <2>4, Zenon DEF UnionEntered, Stays, Desc
  <2> QED  BY <1>b, <1>d, <2>1, <2>5 DEF Follows
<1>8. CASE ReadSizedHeader
  <2>1. todo # << >> /\ KindOf(Head(todo)) = "sized"
    BY <1>8 DEF ReadSizedHeader, Doing
  <2>2. PICK b \in Offered[root][Head(todo).type] :
          /\ size - Desc.width >= 0 /\ size' = size - Desc.width
          /\ input' = input \o b /\ UNCHANGED <<root, length>>
          /\ \/ value' = value \o <<FromBytes(b), Untouched>>
             \/ /\ value' = Append(value, FromBytes(b))
                /\ Continue(<<CallFor(Desc.element, Head(todo).flag, 1),
                              CloseOf(Head(todo).type, Number(FromBytes(b)), size')>>)
    BY <1>8, FailedCall DEF ReadSizedHeader
  <2>3. Desc.width = 2 /\ Desc.element \in Field
    BY <2>1, HeadTask, TaskFacts DEF Desc, Shape
  <2>4. FromBytes(b) \in Value /\ Untouched \in Value /\ Number(FromBytes(b)) \in Nat
    BY <2>1, <2>2, FetchFacts DEF Value
  <2>5. size' = length - Len(input) - 2 /\ size' \in Nat /\ Len(input) + 2 <= length
    <3>1. size >= 0 /\ Len(input) + size = length /\ Len(input) \in Nat /\ size \in Int
      BY <2>1, StillReading DEF UTypeOK
    <3> QED  BY <2>2, <2>3, <3>1
  <2>6. CASE value' = value \o <<FromBytes(b), Untouched>>
    <3>1. Len(value) + 2 \in DOMAIN value' /\ value'[Len(value) + 2] = Untouched
      BY <1>a, <2>4, <2>6
    <3>2. EmptyTaken(Here, value')
      BY <1>b, <2>1, <3>1 DEF EmptyTaken
    <3> QED  BY <1>b, <1>c, <2>1, <2>2, <2>6, <3>2 DEF Follows
  <2>7. CASE /\ value' = Append(value, FromBytes(b))
             /\ Continue(<<CallFor(Desc.element, Head(todo).flag, 1),
                           CloseOf(Head(todo).type, Number(FromBytes(b)), size')>>)
    <3> DEFINE calls == <<CallFor(Desc.element, Head(todo).flag, 1),
                          CloseOf(Head(todo).type, Number(FromBytes(b)), size')>>
    <3>1. calls \in Seq(Task)
      <4>1. CallFor(Desc.element, Head(todo).flag, 1) \in Task
        BY <2>1, <2>3, HeadTask, CallForType
      <4>2. CloseOf(Head(todo).type, Number(FromBytes(b)), size') \in Task
        BY <2>1, <2>4, <2>5, HeadTask, CloseOfType
      <4> QED  BY <4>1, <4>2
    <3>2. Continue(calls)
      BY <2>7
    <3>3. /\ value'[Here.n + 1] = FromBytes(b) /\ Len(FromBytes(b)) = WordsOf(Desc.width)
          /\ Takes(Here, Here', value', input', calls,
                   ToBytes(value'[Here.n + 1], Schema[Head(Here.todo).type].width))
      <4> HIDE DEF calls
      <4> QED  BY <2>1, <2>2, <2>7, <3>1, <3>2, FetchTakes
    <3>4. Len(FromBytes(b)) = 1
      BY <2>3, <3>3 DEF WordsOf
    <3>5. HeaderTaken(Here, Here', value', input', length)
      BY <1>b, <2>1, <2>3, <2>5, <3>3, <3>4, Zenon DEF HeaderTaken, Desc
    <3> QED  BY <1>b, <1>c, <2>1, <2>2, <2>7, <3>5 DEF Follows
  <2> QED  BY <2>2, <2>6, <2>7
<1>9. CASE CloseSized
  <2>1. /\ todo # << >> /\ KindOf(Head(todo)) = "close"
        /\ UNCHANGED <<root, length, size, input, value>>
    BY <1>9 DEF CloseSized, Doing
  <2>2. Head(todo).n = Head(todo).at - size /\ Continue(<< >>)
    BY <1>9, FailedCall DEF CloseSized
  <2>3. size = length - Len(input)
    BY <2>1, StillReading DEF UTypeOK
  <2>4. Here' = [todo |-> << >> \o Tail(todo), n |-> Len(value), o |-> Len(input)]
    BY <2>1, <2>2 DEF Here, Continue
  <2>5. SizeHeld(Here, Here', length)
    BY <1>b, <2>1, <2>2, <2>3, <2>4, Zenon DEF SizeHeld, Stays
  <2> QED  BY <1>b, <1>d, <2>1, <2>5 DEF Follows
<1> QED  BY <1>1, <1>2, <1>3, <1>4, <1>5, <1>6, <1>7, <1>8, <1>9 DEF UNext
-----------------------------------------------------------------------------
(* Nothing, and what holds no union, waits for no selector.                *)
NoUnion(s) == \A i \in 1 .. Len(s) : KindOf(s[i]) # "union"

Past(s, n) == \A i \in 1 .. Len(s) : KindOf(s[i]) = "union" =>
                s[i].at \in Nat \ {0} /\ s[i].at <= n

(* A sequence and what is put in front of the rest of another.             *)
LEMMA Spliced ==
  ASSUME NEW S, NEW s \in Seq(S), NEW t \in Seq(S)
  PROVE  /\ s \o t \in Seq(S) /\ Len(s \o t) = Len(s) + Len(t)
         /\ Len(s) \in Nat /\ Len(t) \in Nat
         /\ \A i \in 1 .. Len(s) : i \in 1 .. Len(s \o t) /\ (s \o t)[i] = s[i]
         /\ \A i \in 1 .. Len(s \o t) : i > Len(s) =>
              i - Len(s) \in 1 .. Len(t) /\ (s \o t)[i] = t[i - Len(s)]
BY ConcatProperties, LenProperties

(* The rest of a sequence.                                                 *)
LEMMA Rest ==
  ASSUME NEW S, NEW s \in Seq(S), s # << >>
  PROVE  /\ Head(s) \in S /\ Tail(s) \in Seq(S) /\ Len(s) \in Nat /\ Len(Tail(s)) = Len(s) - 1
         /\ s[1] = Head(s) /\ 1 \in 1 .. Len(s)
         /\ \A i \in 1 .. Len(Tail(s)) : i + 1 \in 1 .. Len(s) /\ Tail(s)[i] = s[i + 1]
BY HeadTailProperties, LenProperties

(* Once the task at hand is no integer, every selector was read.           *)
LEMMA SelectorsRead ==
  ASSUME NEW s \in Seq(Task), s # << >>, NEW n \in Nat, Selected(s, n),
         KindOf(Head(s)) # "integer"
  PROVE  Past(Tail(s), n)
<1>1. ASSUME NEW i \in 1 .. Len(Tail(s)), KindOf(Tail(s)[i]) = "union"
      PROVE  Tail(s)[i].at \in Nat \ {0} /\ Tail(s)[i].at <= n
  <2>1. /\ i + 1 \in 1 .. Len(s) /\ Tail(s)[i] = s[i + 1] /\ s[1] = Head(s)
    BY Rest
  <2>2. /\ s[i + 1].at \in Nat \ {0}
        /\ \A j \in 1 .. s[i + 1].at - n : KindOf(s[j]) = "integer"
    BY <1>1, <2>1 DEF Selected
  <2>3. 1 \notin 1 .. s[i + 1].at - n
    BY <2>1, <2>2
  <2> QED  BY <2>1, <2>2, <2>3
<1> QED  BY <1>1 DEF Past

(* An integer read is one less to wait for.                                *)
LEMMA SelectorRead ==
  ASSUME NEW s \in Seq(Task), s # << >>, NEW n \in Nat, Selected(s, n)
  PROVE  KindOf(Head(s)) # "union" => Selected(Tail(s), n + 1)
<1> SUFFICES ASSUME NEW i \in 1 .. Len(Tail(s)), KindOf(Tail(s)[i]) = "union"
             PROVE  /\ Tail(s)[i].at \in Nat \ {0} /\ Tail(s)[i].at < n + 1 + i
                    /\ \A j \in 1 .. Tail(s)[i].at - (n + 1) : KindOf(Tail(s)[j]) = "integer"
  BY DEF Selected
<1>1. i + 1 \in 1 .. Len(s) /\ Tail(s)[i] = s[i + 1] /\ Len(s) \in Nat
      /\ Len(Tail(s)) = Len(s) - 1
  BY Rest
<1>2. /\ s[i + 1].at \in Nat \ {0} /\ s[i + 1].at < n + (i + 1)
      /\ \A j \in 1 .. s[i + 1].at - n : KindOf(s[j]) = "integer"
  BY <1>1 DEF Selected
<1> DEFINE a == s[i + 1].at
<1>3. ASSUME NEW j \in 1 .. a - (n + 1)
      PROVE  KindOf(Tail(s)[j]) = "integer"
  <2>1. a \in Nat /\ a < n + (i + 1) /\ i \in Nat /\ i <= Len(s) - 1
    BY <1>1, <1>2
  <2>2. j + 1 \in 1 .. a - n /\ j \in 1 .. Len(s) - 1
    <3> HIDE DEF a
    <3> QED  BY <1>1, <2>1
  <2>3. Tail(s)[j] = s[j + 1]
    BY <1>1, <2>2, Rest
  <2> QED  BY <1>2, <2>2, <2>3
<1> QED  BY <1>1, <1>2, <1>3

(* Calls in front of what waits for no selector.                           *)
LEMMA SelectedThen ==
  ASSUME NEW calls \in Seq(Task), NEW s \in Seq(Task), NEW n \in Nat,
         Selected(calls, n), Past(s, n)
  PROVE  Selected(calls \o s, n)
<1> SUFFICES ASSUME NEW i \in 1 .. Len(calls \o s), KindOf((calls \o s)[i]) = "union"
             PROVE  /\ (calls \o s)[i].at \in Nat \ {0} /\ (calls \o s)[i].at < n + i
                    /\ \A j \in 1 .. (calls \o s)[i].at - n : KindOf((calls \o s)[j]) = "integer"
  BY DEF Selected
<1>a. Len(calls) \in Nat
  BY LenProperties
<1>1. CASE i <= Len(calls)
  <2>1. i \in 1 .. Len(calls) /\ (calls \o s)[i] = calls[i]
    BY <1>a, <1>1, Spliced
  <2>2. /\ calls[i].at \in Nat \ {0} /\ calls[i].at < n + i
        /\ \A j \in 1 .. calls[i].at - n : KindOf(calls[j]) = "integer"
    BY <2>1 DEF Selected
  <2>3. \A j \in 1 .. calls[i].at - n : j \in 1 .. Len(calls)
    BY <1>a, <2>1, <2>2
  <2>4. \A j \in 1 .. calls[i].at - n : (calls \o s)[j] = calls[j]
    BY <2>3, Spliced
  <2> QED  BY <2>1, <2>2, <2>4
<1>2. CASE i > Len(calls)
  <2>1. i - Len(calls) \in 1 .. Len(s) /\ (calls \o s)[i] = s[i - Len(calls)]
    BY <1>2, Spliced
  <2>2. (calls \o s)[i].at \in Nat \ {0} /\ (calls \o s)[i].at <= n
    BY <2>1 DEF Past
  <2> QED  BY <2>2
<1> QED  BY <1>a, <1>1, <1>2

(* What holds no union.                                                    *)
LEMMA NoUnionSelected ==
  ASSUME NEW s, NoUnion(s), NEW n
  PROVE  Selected(s, n)
BY DEF NoUnion, Selected

(* What was read already is read when more is.                             *)
LEMMA PastMore ==
  ASSUME NEW s, NEW n \in Nat, NEW p \in Nat, n <= p, Past(s, n)
  PROVE  Past(s, p)
BY DEF Past

(* The kinds of the tasks that a type expands to.                          *)
LEMMA KindOfCall ==
  ASSUME NEW f, NEW flag, NEW base
  PROVE  /\ KindOf(CallFor(f, flag, base)) = Schema[f.type].kind
         /\ CallFor(f, flag, base).at = base + f.selector - 1
         /\ CallFor(f, flag, base).type = f.type
BY DEF KindOf, CallFor

(* The calls of a structure's fields find their selectors.                 *)
LEMMA FieldsSelected ==
  ASSUME NEW t \in Types, Schema[t].kind = "struct", NEW flag \in BOOLEAN, NEW n \in Nat
  PROVE  Selected(CallsFor(Schema[t].fields, flag, n + 1), n)
<1> DEFINE fields == Schema[t].fields
           calls  == CallsFor(fields, flag, n + 1)
<1>1. fields \in Seq(Field)
  BY SchemaAssumption DEF Shape
<1>2. \A i \in DOMAIN fields : IsUnion(fields[i]) => SelectorIsRead(fields, i)
  BY UnionAssumption
<1> HIDE DEF fields
<1>3. Len(fields) \in Nat /\ DOMAIN fields = 1 .. Len(fields)
  BY <1>1, LenProperties
<1>4. /\ Len(calls) = Len(fields)
      /\ \A i \in 1 .. Len(fields) : /\ calls[i] = CallFor(fields[i], flag, n + 1)
                                    /\ KindOf(calls[i]) = Schema[fields[i].type].kind
                                    /\ calls[i].at = n + 1 + fields[i].selector - 1
  <2>1. calls \in Seq({k \in Task : k.do = "call"})
    BY <1>1, CallsForType
  <2>2. DOMAIN calls = 1 .. Len(fields)
    BY DEF CallsFor
  <2>3. \A i \in 1 .. Len(fields) : calls[i] = CallFor(fields[i], flag, n + 1)
    BY DEF CallsFor
  <2> QED  BY <1>3, <2>1, <2>2, <2>3, KindOfCall, LenProperties
<1> HIDE DEF calls
<1>5. ASSUME NEW i \in 1 .. Len(calls), KindOf(calls[i]) = "union"
      PROVE  /\ calls[i].at \in Nat \ {0} /\ calls[i].at < n + i
             /\ \A j \in 1 .. calls[i].at - n : KindOf(calls[j]) = "integer"
  <2>1. SelectorIsRead(fields, i)
    BY <1>2, <1>3, <1>4, <1>5 DEF IsUnion
  <2>2. /\ fields[i].selector \in 1 .. i - 1
        /\ \A j \in 1 .. fields[i].selector : Schema[fields[j].type].kind = "integer"
    BY <2>1 DEF SelectorIsRead
  <2>3. calls[i].at = n + fields[i].selector
    <3>1. fields[i].selector \in Nat /\ i \in 1 .. Len(fields)
      BY <1>3, <1>4, <2>2
    <3>2. calls[i].at = n + 1 + fields[i].selector - 1
      BY <1>4, <3>1
    <3>3. \A x \in Nat : n + 1 + x - 1 = n + x
      OBVIOUS
    <3> QED  BY <3>1, <3>2, <3>3, Zenon
  <2>4. calls[i].at - n = fields[i].selector
    BY <2>2, <2>3
  <2>5. \A j \in 1 .. fields[i].selector : j \in 1 .. Len(fields)
    BY <1>3, <1>4, <2>2
  <2>6. \A j \in 1 .. fields[i].selector : KindOf(calls[j]) = "integer"
    BY <1>4, <2>2, <2>5
  <2>7. calls[i].at \in Nat \ {0} /\ calls[i].at < n + i
    BY <1>3, <1>4, <2>2, <2>3
  <2> QED  BY <2>4, <2>6, <2>7
<1> QED  BY <1>5 DEF Selected, calls, fields
(* A read that fetched no integer leaves no union waiting in the tasks     *)
(* that follow it.                                                         *)
LEMMA ContinueSelects ==
  ASSUME UTypeOK, todo # << >>, Selected(todo, Len(value)),
         KindOf(Head(todo)) # "integer",
         NEW calls \in Seq(Task), Continue(calls),
         NEW p \in Nat, Len(value) <= p, Selected(calls, p)
  PROVE  Selected(todo', p)
<1>1. todo \in Seq(Task) /\ Len(value) \in Nat
  BY LenProperties DEF UTypeOK
<1>2. Past(Tail(todo), p)
  BY <1>1, SelectorsRead, PastMore
<1>3. Tail(todo) \in Seq(Task) /\ todo' = calls \o Tail(todo)
  BY <1>1, Rest DEF Continue
<1> QED  BY <1>2, <1>3, SelectedThen

(* Every step of a call has read the selectors that it will look at.       *)
LEMMA ReadSelects ==
  ASSUME UTypeOK, UNext, Selected(todo, Len(value))
  PROVE  Selected(todo', Len(value'))
<1>a. /\ todo \in Seq(Task) /\ value \in Seq(Value) /\ Len(value) \in Nat
      /\ << >> \in Seq(Task)
  BY EmptySeq, LenProperties DEF UTypeOK
<1>b. \A n : Selected(<< >>, n)
  BY DEF Selected
<1>c. \A code : Fail(code) => Selected(todo', Len(value'))
  BY <1>b DEF Fail
<1>d. \A b : Fetch(b) => value' = Append(value, FromBytes(b))
  BY DEF Fetch
<1>e. \A x \in Value : Len(Append(value, x)) = Len(value) + 1
  BY <1>a
<1>f. ASSUME NEW x \in Task, KindOf(x) # "union"
      PROVE  <<x>> \in Seq(Task) /\ \A n : Selected(<<x>>, n)
  BY <1>f, NoUnionSelected DEF NoUnion
<1>g. /\ Len(value) + 1 \in Nat /\ Len(value) + 2 \in Nat /\ Len(value) <= Len(value)
      /\ Len(value) <= Len(value) + 1 /\ Len(value) <= Len(value) + 2
  BY <1>a
<1>h. ASSUME todo # << >>, KindOf(Head(todo)) # "integer", NEW calls \in Seq(Task), Continue(calls)
      PROVE  /\ Selected(calls, Len(value)) => Selected(todo', Len(value))
             /\ Selected(calls, Len(value) + 1) => Selected(todo', Len(value) + 1)
             /\ Selected(calls, Len(value) + 2) => Selected(todo', Len(value) + 2)
  <2>1. Len(value) \in Nat
    BY <1>a
  <2> QED  BY <1>g, <1>h, <2>1, ContinueSelects, Zenon
<1>1. CASE TooShort
  BY <1>1, <1>c DEF TooShort
<1>2. CASE ReadInteger
  <2>1. todo # << >> /\ KindOf(Head(todo)) = "integer"
    BY <1>2 DEF ReadInteger, Doing
  <2>2. PICK b \in Offered[root][Head(todo).type] :
          /\ Fetch(b) /\ (Continue(<< >>) \/ Fail(Desc.code))
    BY <1>2 DEF ReadInteger
  <2>3. Len(value') = Len(value) + 1
    BY <1>d, <1>e, <2>1, <2>2, FetchFacts
  <2>4. Selected(Tail(todo), Len(value) + 1)
    BY <1>a, <2>1, SelectorRead
  <2>5. Continue(<< >>) => todo' = Tail(todo)
    BY <1>a, <2>1, Rest, ConcatEmptySeq DEF Continue
  <2> QED  BY <1>c, <2>2, <2>3, <2>4, <2>5
<1>3. CASE ReadBufferSize
  <2>1. todo # << >> /\ KindOf(Head(todo)) = "buffer"
    BY <1>3 DEF ReadBufferSize, Doing
  <2>2. PICK b \in Offered[root][Head(todo).type] :
          /\ Fetch(b)
          /\ \/ Continue(<<ArrayOf(Head(todo).type, Number(FromBytes(b)))>>)
             \/ Fail(Desc.code)
    BY <1>3 DEF ReadBufferSize
  <2>3. Len(value') = Len(value) + 1 /\ Number(FromBytes(b)) \in Nat
    BY <1>d, <1>e, <2>1, <2>2, FetchFacts
  <2> DEFINE x == ArrayOf(Head(todo).type, Number(FromBytes(b)))
  <2>4. x \in Task /\ KindOf(x) # "union"
    BY <2>1, <2>3, HeadTask, ArrayOfType DEF KindOf
  <2> HIDE DEF x
  <2>5. Continue(<<x>>) => Selected(todo', Len(value) + 1)
    BY <1>a, <1>f, <2>1, <2>4, <1>h
  <2> QED  BY <1>c, <2>2, <2>3, <2>5 DEF x
<1>4. CASE ReadBytes
  <2> DEFINE n == CountOf(Head(todo))
  <2>1. todo # << >> /\ KindOf(Head(todo)) = "bytes"
    BY <1>4 DEF ReadBytes, Doing
  <2>2. \/ Fail("TPM_RC_INSUFFICIENT")
        \/ value' = Append(value, Contents(n)) /\ Continue(<< >>)
    BY <1>4 DEF ReadBytes
  <2>3. n \in Nat
    BY <2>1, HeadTask, TaskFacts
  <2> HIDE DEF n
  <2>4. Contents(n) \in Value
    BY <2>3, ContentsType DEF Value
  <2>5. Continue(<< >>) => Selected(todo', Len(value) + 1)
    BY <1>a, <1>b, <2>1, <1>h
  <2> QED  BY <1>c, <1>e, <2>2, <2>4, <2>5
<1>5. CASE ReadListCount
  <2>1. todo # << >> /\ KindOf(Head(todo)) = "list"
    BY <1>5 DEF ReadListCount, Doing
  <2>2. PICK b \in Offered[root][Head(todo).type] :
          /\ Fetch(b)
          /\ \/ Continue(Repeated(Desc.element, Number(FromBytes(b))))
             \/ Fail(Desc.code)
    BY <1>5 DEF ReadListCount
  <2>3. Len(value') = Len(value) + 1 /\ Number(FromBytes(b)) \in Nat
    BY <1>d, <1>e, <2>1, <2>2, FetchFacts
  <2>4. Desc.element \in Field /\ Schema[Desc.element.type].kind # "union"
    BY <2>1, HeadTask, TaskFacts, UnionAssumption DEF Desc, Shape, IsUnion
  <2> DEFINE calls == Repeated(Desc.element, Number(FromBytes(b)))
  <2>5. calls \in Seq(Task)
    BY <2>3, <2>4, RepeatedType, CallsAreTasks
  <2>6. NoUnion(calls)
    <3>1. DOMAIN calls = 1 .. Len(calls)
      BY <2>5, LenProperties
    <3>2. \A i \in DOMAIN calls : calls[i] = CallFor(Desc.element, FALSE, 1)
      BY DEF Repeated
    <3>3. KindOf(CallFor(Desc.element, FALSE, 1)) # "union"
      BY <2>4 DEF KindOf, CallFor
    <3> QED  BY <3>1, <3>2, <3>3 DEF NoUnion
  <2> HIDE DEF calls
  <2>7. Continue(calls) => Selected(todo', Len(value) + 1)
    BY <1>a, <2>1, <2>5, <2>6, <1>h, NoUnionSelected
  <2> QED  BY <1>c, <2>2, <2>3, <2>7 DEF calls
<1>6. CASE ReadStruct
  <2> DEFINE calls == CallsFor(Desc.fields, Head(todo).flag, Len(value) + 1)
  <2>1. todo # << >> /\ KindOf(Head(todo)) = "struct" /\ Continue(calls) /\ value' = value
    BY <1>6 DEF ReadStruct, Doing
  <2>2. /\ Head(todo).type \in Types /\ Desc.kind = "struct" /\ Desc.fields \in Seq(Field)
        /\ Head(todo).flag \in BOOLEAN
    BY <2>1, HeadTask, TaskFacts DEF Desc, Shape
  <2>3. calls \in Seq(Task)
    <3>1. Len(value) + 1 \in Nat \ {0}
      BY <1>a
    <3> QED  BY <2>2, <3>1, CallsForType, CallsAreTasks
  <2>4. Selected(calls, Len(value))
    BY <1>a, <2>2, FieldsSelected DEF Desc
  <2> HIDE DEF calls
  <2> QED  BY <1>a, <2>1, <2>3, <2>4, <1>h
<1>7. CASE ReadUnion
  <2> DEFINE w == value[Head(todo).at]
  <2>1. todo # << >> /\ KindOf(Head(todo)) = "union" /\ value' = value
    BY <1>7 DEF ReadUnion, Doing
  <2>2. \/ w \in DOMAIN Desc.arms /\ Continue(<<CallFor(Desc.arms[w], FALSE, 1)>>)
        \/ Fail("TPM_RC_SELECTOR")
    BY <1>7 DEF ReadUnion
  <2>3. ASSUME w \in DOMAIN Desc.arms, Continue(<<CallFor(Desc.arms[w], FALSE, 1)>>)
        PROVE  Selected(todo', Len(value))
    <3>1. Desc.arms[w] \in Field /\ Schema[Desc.arms[w].type].kind # "union"
      BY <2>1, <2>3, HeadTask, TaskFacts, UnionAssumption DEF Desc, Shape, IsUnion
    <3> DEFINE x == CallFor(Desc.arms[w], FALSE, 1)
    <3>2. x \in Task /\ KindOf(x) # "union"
      <4>1. FALSE \in BOOLEAN /\ 1 \in Nat \ {0}
        OBVIOUS
      <4>2. x \in Task
        BY <3>1, <4>1, CallForType
      <4>3. KindOf(x) # "union"
        BY <3>1 DEF KindOf, CallFor
      <4> QED  BY <4>2, <4>3
    <3>3. Continue(<<x>>)
      BY <2>3
    <3> HIDE DEF x
    <3> QED  BY <1>a, <1>f, <2>1, <3>2, <3>3, <1>h
  <2> QED  BY <1>c, <2>1, <2>2, <2>3
<1>8. CASE ReadSizedHeader
  <2>1. todo # << >> /\ KindOf(Head(todo)) = "sized"
    BY <1>8 DEF ReadSizedHeader, Doing
  <2>2. PICK b \in Offered[root][Head(todo).type] :
          /\ size - Desc.width >= 0 /\ size' = size - Desc.width
          /\ \/ value' = value \o <<FromBytes(b), Untouched>> /\ Continue(<< >>)
             \/ Fail("TPM_RC_SIZE")
             \/ /\ value' = Append(value, FromBytes(b))
                /\ Continue(<<CallFor(Desc.element, Head(todo).flag, 1),
                              CloseOf(Head(todo).type, Number(FromBytes(b)), size')>>)
    BY <1>8 DEF ReadSizedHeader
  <2>3. FromBytes(b) \in Value /\ Untouched \in Value /\ Number(FromBytes(b)) \in Nat
    BY <2>1, <2>2, FetchFacts DEF Value
  <2>4. CASE value' = value \o <<FromBytes(b), Untouched>> /\ Continue(<< >>)
    <3>1. Len(value') = Len(value) + 2
      BY <1>a, <2>3, <2>4
    <3>2. Selected(todo', Len(value) + 2)
      BY <1>a, <1>b, <2>1, <2>4, <1>h
    <3> QED  BY <3>1, <3>2
  <2>5. CASE /\ value' = Append(value, FromBytes(b))
             /\ Continue(<<CallFor(Desc.element, Head(todo).flag, 1),
                           CloseOf(Head(todo).type, Number(FromBytes(b)), size')>>)
    <3> DEFINE x == CallFor(Desc.element, Head(todo).flag, 1)
               y == CloseOf(Head(todo).type, Number(FromBytes(b)), size')
    <3>1. Desc.element \in Field /\ Schema[Desc.element.type].kind # "union" /\ Desc.width \in Nat
      BY <2>1, HeadTask, TaskFacts, UnionAssumption DEF Desc, Shape, IsUnion
    <3>2. x \in Task /\ KindOf(x) # "union"
      BY <2>1, <3>1, HeadTask, CallForType, KindOfCall
    <3>3. y \in Task /\ KindOf(y) # "union"
      <4>1. size' \in Nat
        BY <2>2, <3>1 DEF UTypeOK
      <4> QED  BY <2>1, <2>3, <4>1, HeadTask, CloseOfType DEF KindOf
    <3>4. Continue(<<x, y>>)
      BY <2>5
    <3> HIDE DEF x, y
    <3>5. <<x, y>> \in Seq(Task) /\ NoUnion(<<x, y>>)
      BY <3>2, <3>3 DEF NoUnion
    <3>6. Selected(todo', Len(value) + 1)
      BY <1>a, <2>1, <3>4, <3>5, <1>h, NoUnionSelected
    <3> QED  BY <1>e, <2>3, <2>5, <3>6
  <2> QED  BY <1>c, <2>2, <2>4, <2>5
<1>9. CASE CloseSized
  <2>1. todo # << >> /\ KindOf(Head(todo)) = "close" /\ value' = value
    BY <1>9 DEF CloseSized, Doing
  <2>2. Continue(<< >>) \/ Fail("TPM_RC_SIZE")
    BY <1>9 DEF CloseSized
  <2>3. Continue(<< >>) => Selected(todo', Len(value))
    BY <1>a, <1>b, <2>1, <1>h
  <2> QED  BY <1>c, <2>1, <2>2, <2>3
<1> QED  BY <1>1, <1>2, <1>3, <1>4, <1>5, <1>6, <1>7, <1>8, <1>9 DEF UNext

(* One step more makes a history of the call as it is then.                *)
LEMMA HistoryGrows ==
  ASSUME UTypeOK, UTypeOK', NEW h, History(h, root, Here, value, input, length),
         Follows(Here, Here', value', input', length'),
         Continues(value, value'), Continues(input, input'), UNCHANGED <<root, length>>
  PROVE  History(Append(h, Here'), root', Here', value', input', length')
<1>1. Here' \in Point
  BY LenProperties DEF Here, Point, UTypeOK
<1>2. h \in Seq(Point) /\ h # << >> /\ Starts(h[1], root) /\ h[Len(h)] = Here
      /\ Chain(h, value, input, length)
  BY DEF History
<1> DEFINE g == Append(h, Here')
<1>3. /\ g \in Seq(Point) /\ g # << >> /\ Len(g) = Len(h) + 1 /\ g[Len(h) + 1] = Here'
      /\ \A i \in 1 .. Len(h) : g[i] = h[i]
      /\ Len(h) \in Nat \ {0}
  BY <1>1, <1>2, AppendProperties, EmptySeq, LenProperties
<1> HIDE DEF g
<1>4. Chain(g, value', input', length')
  <2> SUFFICES ASSUME NEW i \in 1 .. Len(g) - 1
               PROVE  Follows(g[i], g[i + 1], value', input', length')
    BY DEF Chain
  <2>1. CASE i = Len(h)
    BY <1>2, <1>3, <2>1
  <2>2. CASE i # Len(h)
    <3>1. i \in 1 .. Len(h) - 1 /\ i \in 1 .. Len(h) /\ i + 1 \in 1 .. Len(h)
      BY <1>3, <2>2
    <3>2. Follows(h[i], h[i + 1], value, input, length) /\ h[i] \in Point
      BY <1>2, <3>1, ElementOfSeq DEF Chain
    <3>3. Follows(h[i], h[i + 1], value', input', length)
      BY <3>2, FollowsStill
    <3> QED  BY <1>3, <3>1, <3>3
  <2> QED  BY <2>1, <2>2
<1>5. Starts(g[1], root')
  BY <1>2, <1>3
<1> QED  BY <1>3, <1>4, <1>5 DEF History, g
(* A step is taken while there is something to do; it ends the call or     *)
(* keeps its result.                                                       *)
LEMMA ReadGoesOn ==
  ASSUME UNext
  PROVE  todo # << >> /\ (todo' = << >> \/ rc' = rc)
<1>1. \A code : Fail(code) => todo' = << >>
  BY DEF Fail
<1>2. \A calls : Continue(calls) => rc' = rc
  BY DEF Continue
<1>3. CASE TooShort
  BY <1>1, <1>3, Zenon DEF TooShort
<1>4. CASE ReadInteger
  BY <1>1, <1>2, <1>4, Zenon DEF ReadInteger, Doing
<1>5. CASE ReadBufferSize
  BY <1>1, <1>2, <1>5, Zenon DEF ReadBufferSize, Doing
<1>6. CASE ReadBytes
  BY <1>1, <1>2, <1>6, Zenon DEF ReadBytes, Doing
<1>7. CASE ReadListCount
  BY <1>1, <1>2, <1>7, Zenon DEF ReadListCount, Doing
<1>8. CASE ReadStruct
  BY <1>2, <1>8, Zenon DEF ReadStruct, Doing
<1>9. CASE ReadUnion
  BY <1>1, <1>2, <1>9, Zenon DEF ReadUnion, Doing
<1>10. CASE ReadSizedHeader
  BY <1>1, <1>2, <1>10, Zenon DEF ReadSizedHeader, Doing
<1>11. CASE CloseSized
  BY <1>1, <1>2, <1>11, Zenon DEF CloseSized, Doing
<1> QED  BY <1>3, <1>4, <1>5, <1>6, <1>7, <1>8, <1>9, <1>10, <1>11, Zenon DEF UNext

(* The history of a call that has just begun.                              *)
LEMMA ReadInvInit == Init => ReadInv
<1> SUFFICES ASSUME Init PROVE ReadInv
  OBVIOUS
<1>1. PICK flag \in BOOLEAN :
        todo = <<CallFor([type |-> root, flag |-> "same", selector |-> 1], flag, 1)>>
  BY DEF Init, UInit
<1>2. /\ root \in Types /\ Schema[root].kind # "union" /\ length \in Lengths
      /\ input = << >> /\ value = << >> /\ rc = "TPM_RC_SUCCESS"
  BY CallsAssumption DEF Init, UInit
<1> DEFINE k == CallFor([type |-> root, flag |-> "same", selector |-> 1], flag, 1)
<1>3. k \in Task /\ KindOf(k) # "union"
  <2>1. [type |-> root, flag |-> "same", selector |-> 1] \in Field /\ 1 \in Nat \ {0}
    BY <1>2 DEF Field
  <2>2. KindOf(k) # "union"
    BY <1>2 DEF KindOf, CallFor
  <2> QED  BY <2>1, <2>2, CallForType
<1>4. todo = <<k>>
  BY <1>1
<1>5. Starts(Here, root)
  <2>1. Here = [todo |-> todo, n |-> 0, o |-> 0]
    BY <1>2 DEF Here
  <2> QED  BY <1>1, <2>1 DEF Starts
<1> HIDE DEF k
<1>6. Here \in Point
  BY <1>2, <1>3, <1>4 DEF Here, Point
<1>7. Selected(todo, Len(value))
  BY <1>3, <1>4, NoUnionSelected DEF NoUnion
<1> DEFINE h == <<Here>>
<1>8. h \in Seq(Point) /\ h # << >> /\ Len(h) = 1 /\ h[1] = Here
  BY <1>6
<1> HIDE DEF h
<1>9. Chain(h, value, input, length)
  BY <1>8 DEF Chain
<1>10. History(h, root, Here, value, input, length)
  BY <1>5, <1>8, <1>9 DEF History
<1> QED  BY <1>2, <1>7, <1>10 DEF ReadInv, ReadIsExplained

(* Every step of a reading call keeps its history.                         *)
LEMMA ReadInvStep ==
  ASSUME UTypeOK, UTypeOK', ReadsStayInside, ReadInv, UNext
  PROVE  ReadInv'
<1>1. todo # << >> /\ rc = "TPM_RC_SUCCESS" /\ (todo' = << >> \/ rc' = rc)
  BY ReadGoesOn DEF ReadInv
<1>2. Selected(todo, Len(value)) /\ length \in Lengths
  BY DEF ReadInv
<1>3. PICK h : History(h, root, Here, value, input, length)
  BY <1>1 DEF ReadInv, ReadIsExplained
<1>4. Selected(todo', Len(value'))
  BY <1>2, ReadSelects
<1>5. rc' = "TPM_RC_SUCCESS" => \E g : History(g, root', Here', value', input', length')
  <2> SUFFICES ASSUME rc' = "TPM_RC_SUCCESS"
               PROVE  \E g : History(g, root', Here', value', input', length')
    OBVIOUS
  <2>1. /\ Follows(Here, Here', value', input', length)
        /\ Continues(value, value') /\ Continues(input, input')
        /\ length' = length /\ root' = root
    BY <1>2, ReadFollows
  <2>2. Follows(Here, Here', value', input', length')
    BY <2>1
  <2>3. History(Append(h, Here'), root', Here', value', input', length')
    BY <1>3, <2>1, <2>2, HistoryGrows
  <2> QED  BY <2>3
<1>6. length' = length
  BY Zenon DEF UNext, TooShort, ReadInteger, ReadBufferSize, ReadBytes, ReadListCount,
               ReadStruct, ReadUnion, ReadSizedHeader, CloseSized, Fetch
<1> QED  BY <1>1, <1>2, <1>4, <1>5, <1>6 DEF ReadInv, ReadIsExplained
-----------------------------------------------------------------------------
(* Where a writing call is: its tasks are those of a point of the reading  *)
(* call, but for flags, and sizes not known before they are written.       *)
Same(x, y) ==
  /\ x.do = y.do /\ x.type = y.type
  /\ x.do = "call" => x.at = y.at
  /\ x.do = "bytes" => x.n = y.n

Matches(s, t) == Len(s) = Len(t) /\ \A i \in 1 .. Len(s) : Same(s[i], t[i])

(* How many size fields wait from each task on.                            *)
Levels(s, lev) ==
  /\ lev \in [1 .. Len(s) + 1 -> Nat] /\ lev[Len(s) + 1] = 0
  /\ \A i \in 1 .. Len(s) :
       lev[i] = IF s[i].do = "close" THEN lev[i + 1] + 1 ELSE lev[i + 1]

(* The end x of a sized structure is the end y of the one that was read    *)
(* from the bytes b of a buffer of size m: its size is in front of it, and *)
(* the count before it leaves out the z size fields that wait behind it.   *)
Begins(y, m) == m - y.at - 2

CountAt(o, z) == (o - 2 * z) % 65536

Waits(x, y, z, b, m) ==
  /\ y.n \in Word /\ Begins(y, m) \in Nat
  /\ Found(b, ToBytes(<<y.n>>, 2), Begins(y, m))
  /\ x.n = CountAt(Begins(y, m), z)

Follow(s, t, lev, b, m) ==
  /\ Matches(s, t) /\ Levels(s, lev)
  /\ \A i \in 1 .. Len(s) : s[i].do = "close" => Waits(s[i], t[i], lev[i + 1], b, m)

(* Nothing was left out: the size fields waiting are where they were read, *)
(* each behind those that wait for what it is part of.                     *)
Nested(s, t, m) ==
  /\ \A i \in 1 .. Len(s) : s[i].do = "close" => s[i].at = Begins(t[i], m)
  /\ \A i, j \in 1 .. Len(s) :
       s[i].do = "close" /\ s[j].do = "close" /\ i < j => s[j].at + 2 <= s[i].at

(* The bytes of the size fields that wait.                                 *)
Skipped(s) == {p \in Nat : \E i \in 1 .. Len(s) :
                 s[i].do = "close" /\ p \in s[i].at + 1 .. s[i].at + 2}

Fits == ~bounded \/ room >= 0

(* The writing call is at point c of the reading call.                     *)
Charges(c, z) ==
  /\ count = CountAt(c.o, z)
  /\ bounded => room = capacity - (c.o - 2 * z)

Copies == \A p \in DOMAIN memory : p \in DOMAIN input /\ memory[p] = input[p]

Complete(c) ==
  /\ at = c.o
  /\ Nested(left, c.todo, length)
  /\ DOMAIN memory = (1 .. at) \ Skipped(left)

Lacks(c) == \E p \in 1 .. c.o : p \notin DOMAIN memory

Reached(c, lev) ==
  /\ next = c.n + 1
  /\ Follow(left, c.todo, lev, input, length)
  /\ Charges(c, lev[1])
  /\ Copies
  /\ IF Fits THEN Complete(c) ELSE Lacks(c)

WritesBack ==
  phase = "writing" =>
    /\ todo = << >> /\ rc = "TPM_RC_SUCCESS" /\ source = value
    /\ \E h : /\ History(h, root, Here, value, input, length)
              /\ \E k \in 1 .. Len(h) : \E lev : Reached(h[k], lev)

(* The inductive invariant: a writing call retraces a reading call.        *)
RoundTripInv == MarshalInv /\ ReadInv /\ WritesBack

(* Cutting to a UINT16 can wait until after a sum.                         *)
LEMMA CutLater ==
  \A a, n \in Int : ((a % 65536) + n) % 65536 = (a + n) % 65536
BY SMT

(* So it can with a difference.                                            *)
LEMMA CutDifference ==
  \A a, b \in Int : ((a % 65536) - (b % 65536)) % 65536 = (a - b) % 65536
<1>1. \A x, k \in Int : (x + 65536 * k) % 65536 = x % 65536
  BY SMT
<1>2. \A x \in Int : x \div 65536 \in Int /\ x % 65536 \in Int
                   /\ x = 65536 * (x \div 65536) + (x % 65536)
  BY SMT
<1>3. \A p, q, r, s \in Int : r - s = ((65536 * p + r) - (65536 * q + s)) + 65536 * (q - p)
  BY SMT
<1> SUFFICES ASSUME NEW a \in Int, NEW b \in Int
             PROVE  ((a % 65536) - (b % 65536)) % 65536 = (a - b) % 65536
  OBVIOUS
<1>4. PICK p \in Int, r \in Int : r = a % 65536 /\ a = 65536 * p + r
  BY <1>2
<1>5. PICK q \in Int, s \in Int : s = b % 65536 /\ b = 65536 * q + s
  BY <1>2
<1>6. r - s = (a - b) + 65536 * (q - p) /\ q - p \in Int /\ a - b \in Int
  BY <1>3, <1>4, <1>5
<1>7. (r - s) % 65536 = (a - b) % 65536
  BY <1>1, <1>6
<1> QED  BY <1>4, <1>5, <1>7

(* A number of 16 bits is not changed by the cut.                          *)
LEMMA CutNothing == \A n \in Nat : n < 65536 => n % 65536 = n
BY SMT

(* The rest of the tasks.                                                  *)
LEMMA FollowRest ==
  ASSUME NEW s \in Seq(Task), NEW t \in Seq(Task), s # << >>, NEW lev, NEW b, NEW m,
         Follow(s, t, lev, b, m)
  PROVE  /\ t # << >> /\ Same(Head(s), Head(t)) /\ lev[1] \in Nat /\ lev[2] \in Nat
         /\ lev[1] = IF Head(s).do = "close" THEN lev[2] + 1 ELSE lev[2]
         /\ Head(s).do = "close" => Waits(Head(s), Head(t), lev[2], b, m)
         /\ \E l : /\ Follow(Tail(s), Tail(t), l, b, m) /\ l[1] = lev[2]
<1>1. /\ Len(s) = Len(t) /\ \A i \in 1 .. Len(s) : Same(s[i], t[i])
      /\ lev \in [1 .. Len(s) + 1 -> Nat] /\ lev[Len(s) + 1] = 0
      /\ \A i \in 1 .. Len(s) :
           lev[i] = IF s[i].do = "close" THEN lev[i + 1] + 1 ELSE lev[i + 1]
      /\ \A i \in 1 .. Len(s) : s[i].do = "close" => Waits(s[i], t[i], lev[i + 1], b, m)
  BY DEF Follow, Matches, Levels
<1>2. Len(s) \in Nat \ {0} /\ t # << >>
  BY <1>1, EmptySeq, LenProperties
<1>3. /\ s[1] = Head(s) /\ t[1] = Head(t) /\ 1 \in 1 .. Len(s) /\ 1 + 1 = 2
      /\ Len(Tail(s)) = Len(s) - 1 /\ Len(Tail(t)) = Len(s) - 1
  BY <1>1, <1>2, Rest
<1>4. \A i \in 1 .. Len(s) - 1 : /\ i + 1 \in 1 .. Len(s)
                                /\ Tail(s)[i] = s[i + 1] /\ Tail(t)[i] = t[i + 1]
  BY <1>1, <1>2, <1>3, Rest
<1> DEFINE l == [i \in 1 .. Len(s) |-> lev[i + 1]]
<1>5. /\ l \in [1 .. Len(s) -> Nat] /\ l[Len(s)] = 0 /\ l[1] = lev[2]
      /\ \A i \in 1 .. Len(s) : l[i] = lev[i + 1]
      /\ lev[1] \in Nat /\ lev[2] \in Nat
  BY <1>1, <1>2, SMTT(30)
<1>6. \A i \in 1 .. Len(s) - 1 : i \in 1 .. Len(s) /\ i + 1 \in 1 .. Len(s)
        /\ l[i] = lev[i + 1] /\ l[i + 1] = lev[(i + 1) + 1]
  BY <1>2, <1>5
<1> HIDE DEF l
<1>7. Matches(Tail(s), Tail(t))
  BY <1>1, <1>3, <1>4 DEF Matches
<1>8. Levels(Tail(s), l)
  <2>1. Len(Tail(s)) + 1 = Len(s)
    BY <1>2, <1>3
  <2>2. ASSUME NEW i \in 1 .. Len(Tail(s))
        PROVE  l[i] = IF Tail(s)[i].do = "close" THEN l[i + 1] + 1 ELSE l[i + 1]
    <3>1. i \in 1 .. Len(s) - 1
      BY <1>3, <2>2
    <3>2. i + 1 \in 1 .. Len(s) /\ Tail(s)[i] = s[i + 1]
      BY <1>4, <3>1, Zenon
    <3>3. l[i] = lev[i + 1] /\ l[i + 1] = lev[(i + 1) + 1]
      BY <1>6, <3>1, Zenon
    <3>4. lev[i + 1] = IF s[i + 1].do = "close" THEN lev[(i + 1) + 1] + 1 ELSE lev[(i + 1) + 1]
      BY <1>1, <3>2, Zenon
    <3> QED  BY <3>2, <3>3, <3>4, Zenon
  <2> QED  BY <1>5, <2>1, <2>2 DEF Levels
<1>9. \A i \in 1 .. Len(Tail(s)) : Tail(s)[i].do = "close" =>
        Waits(Tail(s)[i], Tail(t)[i], l[i + 1], b, m)
  <2> SUFFICES ASSUME NEW i \in 1 .. Len(Tail(s)), Tail(s)[i].do = "close"
               PROVE  Waits(Tail(s)[i], Tail(t)[i], l[i + 1], b, m)
    OBVIOUS
  <2>1. i \in 1 .. Len(s) - 1
    BY <1>3
  <2>2. i + 1 \in 1 .. Len(s) /\ Tail(s)[i] = s[i + 1] /\ Tail(t)[i] = t[i + 1]
    BY <1>4, <2>1, Zenon
  <2>3. l[i + 1] = lev[(i + 1) + 1]
    BY <1>6, <2>1, Zenon
  <2>4. Waits(s[i + 1], t[i + 1], lev[(i + 1) + 1], b, m)
    BY <1>1, <2>2, Zenon
  <2> QED  BY <2>2, <2>3, <2>4, Zenon
<1>10. Follow(Tail(s), Tail(t), l, b, m)
  BY <1>7, <1>8, <1>9 DEF Follow
<1>11. Same(Head(s), Head(t)) /\ (Head(s).do = "close" => Waits(Head(s), Head(t), lev[2], b, m))
  BY <1>1, <1>3
<1>12. lev[1] = IF Head(s).do = "close" THEN lev[2] + 1 ELSE lev[2]
  BY <1>1, <1>3
<1> QED  BY <1>2, <1>5, <1>10, <1>11, <1>12

(* Tasks that end no sized structure.                                      *)
NoClose(s) == \A i \in 1 .. Len(s) : s[i].do # "close"

(* Calls put in front of tasks that follow others.                         *)
LEMMA CallsFollow ==
  ASSUME NEW calls \in Seq(Task), NEW read \in Seq(Task), Matches(calls, read), NoClose(calls),
         NEW s \in Seq(Task), NEW t \in Seq(Task), NEW lev, NEW b, NEW m,
         Follow(s, t, lev, b, m)
  PROVE  \E l : Follow(calls \o s, read \o t, l, b, m) /\ l[1] = lev[1]
<1> DEFINE n == Len(calls)
           l == [i \in 1 .. n + Len(s) + 1 |-> IF i <= n THEN lev[1] ELSE lev[i - n]]
<1>1. /\ Len(s) = Len(t) /\ \A i \in 1 .. Len(s) : Same(s[i], t[i])
      /\ lev \in [1 .. Len(s) + 1 -> Nat] /\ lev[Len(s) + 1] = 0
      /\ \A i \in 1 .. Len(s) :
           lev[i] = IF s[i].do = "close" THEN lev[i + 1] + 1 ELSE lev[i + 1]
      /\ \A i \in 1 .. Len(s) : s[i].do = "close" => Waits(s[i], t[i], lev[i + 1], b, m)
  BY DEF Follow, Matches, Levels
<1>2. /\ n \in Nat /\ Len(s) \in Nat /\ Len(calls \o s) = n + Len(s)
      /\ Len(read) = n /\ \A i \in 1 .. n : Same(calls[i], read[i]) /\ calls[i].do # "close"
  <2>1. /\ n \in Nat /\ Len(s) \in Nat /\ Len(calls \o s) = n + Len(s)
    BY Spliced
  <2>2. Len(read) = n /\ \A i \in 1 .. n : Same(calls[i], read[i]) /\ calls[i].do # "close"
    BY DEF Matches, NoClose
  <2> QED  BY <2>1, <2>2
<1>3. Len(read \o t) = n + Len(s)
  <2>1. Len(read \o t) = Len(read) + Len(t)
    BY Spliced
  <2> QED  BY <1>1, <1>2, <2>1
<1> HIDE DEF n
<1>4. \A i \in 1 .. n + Len(s) :
        \/ i \in 1 .. n /\ i <= n
        \/ i - n \in 1 .. Len(s) /\ ~(i <= n) /\ (i + 1) - n = (i - n) + 1
  BY <1>2
<1>5. \A i \in 1 .. n : (calls \o s)[i] = calls[i] /\ (read \o t)[i] = read[i]
  BY <1>2, Spliced DEF n
<1>6. \A i \in 1 .. n + Len(s) : ~(i <= n) =>
        (calls \o s)[i] = s[i - n] /\ (read \o t)[i] = t[i - n]
  <2>1. \A i \in 1 .. n + Len(s) : ~(i <= n) => i > n
    BY <1>2
  <2>2. \A i \in 1 .. n + Len(s) : i > n => (calls \o s)[i] = s[i - n]
    BY <1>2, Spliced DEF n
  <2>3. \A i \in 1 .. n + Len(s) : i > n => (read \o t)[i] = t[i - n]
    BY <1>2, <1>3, Spliced
  <2> QED  BY <2>1, <2>2, <2>3
<1>7. /\ l \in [1 .. n + Len(s) + 1 -> Nat] /\ l[n + Len(s) + 1] = 0 /\ l[1] = lev[1]
      /\ \A i \in 1 .. n : l[i] = lev[1] /\ l[i + 1] = lev[1]
      /\ \A i \in 1 .. n + Len(s) : ~(i <= n) => l[i] = lev[i - n] /\ l[i + 1] = lev[(i - n) + 1]
  <2>1. 1 \in 1 .. Len(s) + 1 /\ lev[1] \in Nat
    <3>1. 1 \in 1 .. Len(s) + 1
      BY <1>2
    <3> QED  BY <1>1, <3>1
  <2>2. \A i \in 1 .. n + Len(s) + 1 : i <= n \/ i - n \in 1 .. Len(s) + 1
    <3> HIDE DEF l
    <3> QED  BY <1>2
  <2>3. l \in [1 .. n + Len(s) + 1 -> Nat]
    BY <1>1, <2>1, <2>2
  <2>4. l[n + Len(s) + 1] = 0
    <3>1. n + Len(s) + 1 \in 1 .. n + Len(s) + 1 /\ ~(n + Len(s) + 1 <= n)
          /\ (n + Len(s) + 1) - n = Len(s) + 1
      BY <1>2
    <3> QED  BY <1>1, <3>1
  <2>5. \A i \in 1 .. n + 1 : l[i] = lev[1]
    <3>1. \A i \in 1 .. n + 1 : i \in 1 .. n + Len(s) + 1 /\ (i <= n \/ i - n = 1)
      BY <1>2
    <3> QED  BY <3>1
  <2>6. \A i \in 1 .. n : i \in 1 .. n + 1 /\ i + 1 \in 1 .. n + 1
    BY <1>2
  <2>7. \A i \in 1 .. n + Len(s) + 1 : ~(i <= n) => l[i] = lev[i - n]
    OBVIOUS
  <2>8. \A i \in 1 .. n + Len(s) : ~(i <= n) =>
          /\ i \in 1 .. n + Len(s) + 1 /\ i + 1 \in 1 .. n + Len(s) + 1 /\ ~(i + 1 <= n)
          /\ (i + 1) - n = (i - n) + 1
    BY <1>2
  <2>9. 1 \in 1 .. n + 1
    BY <1>2
  <2> HIDE DEF l
  <2> QED  BY <2>3, <2>4, <2>5, <2>6, <2>7, <2>8, <2>9
<1> HIDE DEF l
<1>8. Matches(calls \o s, read \o t)
  <2>1. ASSUME NEW i \in 1 .. n + Len(s)
        PROVE  Same((calls \o s)[i], (read \o t)[i])
    BY <1>1, <1>2, <1>4, <1>5, <1>6
  <2> QED  BY <1>2, <1>3, <2>1 DEF Matches
<1>9. ASSUME NEW i \in 1 .. n + Len(s)
      PROVE  l[i] = IF (calls \o s)[i].do = "close" THEN l[i + 1] + 1 ELSE l[i + 1]
  <2>1. CASE i <= n
    <3>1. i \in 1 .. n
      BY <1>2, <2>1
    <3> QED  BY <1>2, <1>5, <1>7, <3>1
  <2>2. CASE ~(i <= n)
    <3>1. i - n \in 1 .. Len(s)
      BY <1>2, <1>4, <2>2
    <3> QED  BY <1>1, <1>6, <1>7, <2>2, <3>1
  <2> QED  BY <2>1, <2>2
<1>10. ASSUME NEW i \in 1 .. n + Len(s), (calls \o s)[i].do = "close"
       PROVE  Waits((calls \o s)[i], (read \o t)[i], l[i + 1], b, m)
  <2>1. i - n \in 1 .. Len(s) /\ ~(i <= n)
    BY <1>2, <1>4, <1>5, <1>10
  <2>2. /\ (calls \o s)[i] = s[i - n] /\ (read \o t)[i] = t[i - n]
        /\ l[i + 1] = lev[(i - n) + 1]
    BY <1>6, <1>7, <2>1
  <2> QED  BY <1>1, <1>10, <2>1, <2>2
<1>11. Follow(calls \o s, read \o t, l, b, m)
  BY <1>2, <1>7, <1>8, <1>9, <1>10 DEF Follow, Levels
<1> QED  BY <1>7, <1>11

(* The end of a sized structure put in front of tasks.                     *)
LEMMA CloseFollows ==
  ASSUME NEW x \in Task, NEW y \in Task, Same(x, y), x.do = "close",
         NEW s \in Seq(Task), NEW t \in Seq(Task), NEW lev, NEW b, NEW m,
         Follow(s, t, lev, b, m), Waits(x, y, lev[1], b, m)
  PROVE  \E l : Follow(<<x>> \o s, <<y>> \o t, l, b, m) /\ l[1] = lev[1] + 1
<1> DEFINE l == [i \in 1 .. Len(s) + 2 |-> IF i = 1 THEN lev[1] + 1 ELSE lev[i - 1]]
<1>1. /\ Len(s) = Len(t) /\ \A i \in 1 .. Len(s) : Same(s[i], t[i])
      /\ lev \in [1 .. Len(s) + 1 -> Nat] /\ lev[Len(s) + 1] = 0
      /\ \A i \in 1 .. Len(s) :
           lev[i] = IF s[i].do = "close" THEN lev[i + 1] + 1 ELSE lev[i + 1]
      /\ \A i \in 1 .. Len(s) : s[i].do = "close" => Waits(s[i], t[i], lev[i + 1], b, m)
  BY DEF Follow, Matches, Levels
<1>2. /\ <<x>> \in Seq(Task) /\ <<y>> \in Seq(Task) /\ Len(<<x>>) = 1 /\ Len(<<y>>) = 1
      /\ <<x>>[1] = x /\ <<y>>[1] = y /\ 1 \in 1 .. 1
  OBVIOUS
<1>3. /\ Len(s) \in Nat /\ Len(<<x>> \o s) = Len(s) + 1 /\ Len(<<y>> \o t) = Len(s) + 1
      /\ (<<x>> \o s)[1] = x /\ (<<y>> \o t)[1] = y
  <2>1. Len(<<x>> \o s) = Len(s) + 1 /\ Len(s) \in Nat /\ (<<x>> \o s)[1] = x
    BY <1>2, Spliced
  <2>2. Len(<<y>> \o t) = Len(t) + 1 /\ (<<y>> \o t)[1] = y
    BY <1>2, Spliced
  <2> QED  BY <1>1, <2>1, <2>2
<1>4. \A i \in 1 .. Len(s) + 1 : i # 1 =>
        /\ i - 1 \in 1 .. Len(s) /\ i > 1 /\ (i - 1) + 1 = i
        /\ (<<x>> \o s)[i] = s[i - 1] /\ (<<y>> \o t)[i] = t[i - 1]
  <2>1. \A i \in 1 .. Len(s) + 1 : i # 1 => i - 1 \in 1 .. Len(s) /\ i > 1 /\ (i - 1) + 1 = i
    BY <1>3
  <2>2. \A i \in 1 .. Len(s) + 1 : i > 1 => (<<x>> \o s)[i] = s[i - 1]
    BY <1>2, <1>3, Spliced
  <2>3. \A i \in 1 .. Len(s) + 1 : i > 1 => (<<y>> \o t)[i] = t[i - 1]
    BY <1>2, <1>3, Spliced
  <2> QED  BY <2>1, <2>2, <2>3
<1>5. /\ l \in [1 .. (Len(s) + 1) + 1 -> Nat] /\ l[(Len(s) + 1) + 1] = 0
      /\ l[1] = lev[1] + 1
      /\ \A i \in 1 .. Len(s) + 1 : l[i + 1] = lev[i]
      /\ \A i \in 1 .. Len(s) + 1 : i # 1 => l[i] = lev[i - 1]
  <2>1. \A i \in 1 .. Len(s) + 2 : i # 1 => i - 1 \in 1 .. Len(s) + 1
    BY <1>3
  <2>2. lev[1] + 1 \in Nat /\ (Len(s) + 1) + 1 = Len(s) + 2
    BY <1>1, <1>3
  <2>3. l \in [1 .. Len(s) + 2 -> Nat]
    BY <1>1, <2>1, <2>2
  <2>4. l[Len(s) + 2] = 0
    <3>1. Len(s) + 2 \in 1 .. Len(s) + 2 /\ Len(s) + 2 # 1 /\ (Len(s) + 2) - 1 = Len(s) + 1
      BY <1>3
    <3> QED  BY <1>1, <3>1
  <2>5. \A i \in 1 .. Len(s) + 1 : /\ i \in 1 .. Len(s) + 2 /\ i + 1 \in 1 .. Len(s) + 2
                                  /\ i + 1 # 1 /\ (i + 1) - 1 = i
    BY <1>3
  <2>6. 1 \in 1 .. Len(s) + 2
    BY <1>3
  <2> QED  BY <2>2, <2>3, <2>4, <2>5, <2>6
<1> HIDE DEF l
<1>6. Matches(<<x>> \o s, <<y>> \o t)
  BY <1>1, <1>3, <1>4 DEF Matches
<1>7. lev[1] \in Nat /\ 1 \in 1 .. Len(s) + 1
  BY <1>1, <1>3
<1>8. ASSUME NEW i \in 1 .. Len(s) + 1
      PROVE  l[i] = IF (<<x>> \o s)[i].do = "close" THEN l[i + 1] + 1 ELSE l[i + 1]
  <2>1. CASE i = 1
    BY <1>3, <1>5, <1>7, <2>1
  <2>2. CASE i # 1
    BY <1>1, <1>4, <1>5, <2>2
  <2> QED  BY <2>1, <2>2
<1>9. ASSUME NEW i \in 1 .. Len(s) + 1, (<<x>> \o s)[i].do = "close"
      PROVE  Waits((<<x>> \o s)[i], (<<y>> \o t)[i], l[i + 1], b, m)
  <2>1. CASE i = 1
    BY <1>3, <1>5, <1>7, <2>1
  <2>2. CASE i # 1
    BY <1>1, <1>4, <1>5, <1>9, <2>2, SMTT(30)
  <2> QED  BY <2>1, <2>2
<1>10. Follow(<<x>> \o s, <<y>> \o t, l, b, m)
  BY <1>3, <1>5, <1>6, <1>8, <1>9 DEF Follow, Levels
<1> QED  BY <1>5, <1>10
(* The rest of the tasks has its size fields in the same order, and all of *)
(* them in front of that of a structure that ends.                         *)
LEMMA NestedRest ==
  ASSUME NEW s \in Seq(Task), NEW t \in Seq(Task), s # << >>, Len(s) = Len(t), NEW m,
         Nested(s, t, m)
  PROVE  /\ Nested(Tail(s), Tail(t), m)
         /\ Head(s).do = "close" => Head(s).at = Begins(Head(t), m)
         /\ Head(s).do = "close" =>
              \A i \in 1 .. Len(Tail(s)) : Tail(s)[i].do = "close" => Tail(s)[i].at + 2 <= Head(s).at
<1>1. Len(s) \in Nat \ {0} /\ t # << >>
  BY EmptySeq, LenProperties
<1>2. /\ s[1] = Head(s) /\ t[1] = Head(t) /\ 1 \in 1 .. Len(s)
      /\ Len(Tail(s)) = Len(s) - 1
  BY <1>1, Rest
<1>3. \A i \in 1 .. Len(Tail(s)) : Tail(s)[i] = s[i + 1]
  BY Rest
<1>4. \A i \in 1 .. Len(Tail(s)) : Tail(t)[i] = t[i + 1]
  <2>1. Len(Tail(t)) = Len(Tail(s))
    BY <1>1, <1>2, Rest
  <2> QED  BY <1>1, <2>1, Rest
<1>5. \A i \in 1 .. Len(Tail(s)) : i + 1 \in 1 .. Len(s) /\ 1 < i + 1
  BY <1>1, <1>2
<1>6. \A i, j \in 1 .. Len(Tail(s)) : i < j => i + 1 < j + 1
  BY <1>1, <1>2
<1>7. /\ \A i \in 1 .. Len(s) : s[i].do = "close" => s[i].at = Begins(t[i], m)
      /\ \A i, j \in 1 .. Len(s) :
           s[i].do = "close" /\ s[j].do = "close" /\ i < j => s[j].at + 2 <= s[i].at
  BY DEF Nested
<1>8. \A i \in 1 .. Len(Tail(s)) : Tail(s)[i].do = "close" => Tail(s)[i].at = Begins(Tail(t)[i], m)
  BY <1>3, <1>4, <1>5, <1>7
<1>9. ASSUME NEW i \in 1 .. Len(Tail(s)), NEW j \in 1 .. Len(Tail(s)), i < j,
             Tail(s)[i].do = "close", Tail(s)[j].do = "close"
      PROVE  Tail(s)[j].at + 2 <= Tail(s)[i].at
  BY <1>3, <1>5, <1>6, <1>7, <1>9
<1>10. Nested(Tail(s), Tail(t), m)
  BY <1>8, <1>9 DEF Nested
<1>11. Head(s).do = "close" => Head(s).at = Begins(Head(t), m)
  BY <1>2, <1>7
<1>12. ASSUME Head(s).do = "close", NEW i \in 1 .. Len(Tail(s)), Tail(s)[i].do = "close"
       PROVE  Tail(s)[i].at + 2 <= Head(s).at
  BY <1>2, <1>3, <1>5, <1>7, <1>12
<1> QED  BY <1>10, <1>11, <1>12

(* Calls have no size field.                                               *)
LEMMA CallsNested ==
  ASSUME NEW calls \in Seq(Task), NEW read \in Seq(Task), Len(calls) = Len(read), NoClose(calls),
         NEW s \in Seq(Task), NEW t \in Seq(Task), Len(s) = Len(t), NEW m, Nested(s, t, m)
  PROVE  Nested(calls \o s, read \o t, m)
<1> DEFINE n == Len(calls)
<1>1. /\ n \in Nat /\ Len(s) \in Nat /\ Len(calls \o s) = n + Len(s) /\ Len(read \o t) = n + Len(s)
      /\ Len(read) = n
  <2>1. n \in Nat /\ Len(s) \in Nat /\ Len(calls \o s) = n + Len(s)
    BY Spliced
  <2>2. Len(read \o t) = Len(read) + Len(t)
    BY Spliced
  <2> QED  BY <2>1, <2>2
<1>2. \A i \in 1 .. n + Len(s) : i <= n => (calls \o s)[i].do # "close"
  <2>1. \A i \in 1 .. n : (calls \o s)[i] = calls[i] /\ calls[i].do # "close"
    BY Spliced DEF NoClose
  <2>2. \A i \in 1 .. n + Len(s) : i <= n => i \in 1 .. n
    BY <1>1
  <2> QED  BY <2>1, <2>2
<1>3. \A i \in 1 .. n + Len(s) : i > n =>
        /\ i - n \in 1 .. Len(s) /\ (calls \o s)[i] = s[i - n] /\ (read \o t)[i] = t[i - n]
  <2>1. \A i \in 1 .. n + Len(s) : i > n => i - n \in 1 .. Len(s) /\ (calls \o s)[i] = s[i - n]
    BY <1>1, Spliced
  <2>2. \A i \in 1 .. n + Len(s) : i > n => (read \o t)[i] = t[i - n]
    BY <1>1, Spliced
  <2> QED  BY <2>1, <2>2
<1>4. /\ \A i \in 1 .. Len(s) : s[i].do = "close" => s[i].at = Begins(t[i], m)
      /\ \A i, j \in 1 .. Len(s) :
           s[i].do = "close" /\ s[j].do = "close" /\ i < j => s[j].at + 2 <= s[i].at
  BY DEF Nested
<1> HIDE DEF n
<1>5. \A i \in 1 .. n + Len(s) : i <= n \/ i > n
  BY <1>1
<1>6. \A i, j \in 1 .. n + Len(s) : i < j => i - n < j - n
  BY <1>1
<1>7. \A i \in 1 .. n + Len(s) : (calls \o s)[i].do = "close" =>
        (calls \o s)[i].at = Begins((read \o t)[i], m)
  BY <1>2, <1>3, <1>4, <1>5
<1>8. ASSUME NEW i \in 1 .. n + Len(s), NEW j \in 1 .. n + Len(s), i < j,
             (calls \o s)[i].do = "close", (calls \o s)[j].do = "close"
      PROVE  (calls \o s)[j].at + 2 <= (calls \o s)[i].at
  <2>1. i > n /\ j > n
    BY <1>2, <1>5, <1>8
  <2>2. /\ i - n \in 1 .. Len(s) /\ (calls \o s)[i] = s[i - n]
        /\ j - n \in 1 .. Len(s) /\ (calls \o s)[j] = s[j - n] /\ i - n < j - n
    BY <1>3, <1>6, <1>8, <2>1
  <2> QED  BY <1>4, <1>8, <2>2
<1> QED  BY <1>1, <1>7, <1>8 DEF Nested

(* A structure that ends after those of the tasks, and has its size field  *)
(* behind theirs.                                                          *)
LEMMA CloseNested ==
  ASSUME NEW x \in Task, NEW y \in Task, NEW s \in Seq(Task), NEW t \in Seq(Task), Len(s) = Len(t),
         NEW m, Nested(s, t, m), x.at = Begins(y, m),
         \A i \in 1 .. Len(s) : s[i].do = "close" => s[i].at + 2 <= x.at
  PROVE  Nested(<<x>> \o s, <<y>> \o t, m)
<1>1. /\ <<x>> \in Seq(Task) /\ <<y>> \in Seq(Task) /\ Len(<<x>>) = 1 /\ Len(<<y>>) = 1
      /\ <<x>>[1] = x /\ <<y>>[1] = y /\ 1 \in 1 .. 1
  OBVIOUS
<1>2. /\ Len(s) \in Nat /\ Len(<<x>> \o s) = Len(s) + 1 /\ Len(<<y>> \o t) = Len(s) + 1
      /\ (<<x>> \o s)[1] = x /\ (<<y>> \o t)[1] = y
  <2>1. Len(<<x>> \o s) = Len(s) + 1 /\ Len(s) \in Nat /\ (<<x>> \o s)[1] = x
    BY <1>1, Spliced
  <2>2. Len(<<y>> \o t) = Len(t) + 1 /\ (<<y>> \o t)[1] = y
    BY <1>1, Spliced
  <2> QED  BY <2>1, <2>2
<1>3. \A i \in 1 .. Len(s) + 1 : i # 1 =>
        /\ i - 1 \in 1 .. Len(s)
        /\ (<<x>> \o s)[i] = s[i - 1] /\ (<<y>> \o t)[i] = t[i - 1]
  <2>1. \A i \in 1 .. Len(s) + 1 : i # 1 => i - 1 \in 1 .. Len(s) /\ i > 1
    BY <1>2
  <2>2. \A i \in 1 .. Len(s) + 1 : i > 1 => (<<x>> \o s)[i] = s[i - 1]
    BY <1>1, <1>2, Spliced
  <2>3. \A i \in 1 .. Len(s) + 1 : i > 1 => (<<y>> \o t)[i] = t[i - 1]
    BY <1>1, <1>2, Spliced
  <2> QED  BY <2>1, <2>2, <2>3
<1>4. /\ \A i \in 1 .. Len(s) : s[i].do = "close" => s[i].at = Begins(t[i], m)
      /\ \A i, j \in 1 .. Len(s) :
           s[i].do = "close" /\ s[j].do = "close" /\ i < j => s[j].at + 2 <= s[i].at
  BY DEF Nested
<1>5. \A i, j \in 1 .. Len(s) + 1 : i < j => j # 1 /\ i - 1 < j - 1
  BY <1>2
<1>6. \A i \in 1 .. Len(s) + 1 : (<<x>> \o s)[i].do = "close" =>
        (<<x>> \o s)[i].at = Begins((<<y>> \o t)[i], m)
  BY <1>2, <1>3, <1>4
<1>7. ASSUME NEW i \in 1 .. Len(s) + 1, NEW j \in 1 .. Len(s) + 1, i < j,
             (<<x>> \o s)[i].do = "close", (<<x>> \o s)[j].do = "close"
      PROVE  (<<x>> \o s)[j].at + 2 <= (<<x>> \o s)[i].at
  <2>1. j # 1 /\ i - 1 < j - 1 /\ j - 1 \in 1 .. Len(s) /\ (<<x>> \o s)[j] = s[j - 1]
    BY <1>3, <1>5, <1>7
  <2>2. CASE i = 1
    BY <1>2, <1>7, <2>1, <2>2
  <2>3. CASE i # 1
    BY <1>3, <1>4, <1>7, <2>1, <2>3
  <2> QED  BY <2>2, <2>3
<1> QED  BY <1>2, <1>6, <1>7 DEF Nested

(* The size fields that wait: those of the first tasks and of the others.  *)
LEMMA SkippedConcat ==
  ASSUME NEW s \in Seq(Task), NEW t \in Seq(Task)
  PROVE  Skipped(s \o t) = Skipped(s) \cup Skipped(t)
<1>1. /\ Len(s) \in Nat /\ Len(t) \in Nat /\ Len(s \o t) = Len(s) + Len(t)
      /\ \A i \in 1 .. Len(s) : i \in 1 .. Len(s \o t) /\ (s \o t)[i] = s[i]
      /\ \A i \in 1 .. Len(s \o t) : i > Len(s) =>
           i - Len(s) \in 1 .. Len(t) /\ (s \o t)[i] = t[i - Len(s)]
  BY Spliced
<1>2. ASSUME NEW p \in Skipped(s \o t) PROVE p \in Skipped(s) \cup Skipped(t)
  <2>1. PICK i \in 1 .. Len(s \o t) : /\ (s \o t)[i].do = "close"
                                     /\ p \in (s \o t)[i].at + 1 .. (s \o t)[i].at + 2
    BY <1>2 DEF Skipped
  <2>2. p \in Nat
    BY <1>2 DEF Skipped
  <2>3. CASE i <= Len(s)
    <3>1. i \in 1 .. Len(s) /\ (s \o t)[i] = s[i]
      BY <1>1, <2>3
    <3> QED  BY <2>1, <2>2, <3>1 DEF Skipped
  <2>4. CASE i > Len(s)
    BY <1>1, <2>1, <2>2, <2>4 DEF Skipped
  <2> QED  BY <1>1, <2>3, <2>4
<1>3. ASSUME NEW p \in Skipped(s) PROVE p \in Skipped(s \o t)
  BY <1>1, <1>3 DEF Skipped
<1>4. ASSUME NEW p \in Skipped(t) PROVE p \in Skipped(s \o t)
  <2>1. PICK i \in 1 .. Len(t) : t[i].do = "close" /\ p \in t[i].at + 1 .. t[i].at + 2
    BY <1>4 DEF Skipped
  <2>2. i + Len(s) \in 1 .. Len(s \o t) /\ i + Len(s) > Len(s) /\ (i + Len(s)) - Len(s) = i
    BY <1>1
  <2>3. (s \o t)[i + Len(s)] = t[i]
    BY <1>1, <2>2
  <2>4. p \in Nat
    BY <1>4 DEF Skipped
  <2> QED  BY <2>1, <2>2, <2>3, <2>4 DEF Skipped
<1> QED  BY <1>2, <1>3, <1>4

(* What calls wait for, and the end of a structure.                        *)
LEMMA SkippedFirst ==
  /\ \A s : NoClose(s) => Skipped(s) = {}
  /\ \A x \in Task : x.do = "close" => Skipped(<<x>>) = x.at + 1 .. x.at + 2
<1>1. ASSUME NEW s, NoClose(s) PROVE Skipped(s) = {}
  BY <1>1 DEF NoClose, Skipped
<1>2. ASSUME NEW x \in Task, x.do = "close" PROVE Skipped(<<x>>) = x.at + 1 .. x.at + 2
  <2>1. Len(<<x>>) = 1 /\ <<x>>[1] = x
    OBVIOUS
  <2>2. x.at \in Nat
    BY DEF Task
  <2>3. \A p \in x.at + 1 .. x.at + 2 : p \in Nat
    BY <2>2
  <2>4. \A i : i \in 1 .. 1 <=> i = 1
    OBVIOUS
  <2>5. \A p : p \in Skipped(<<x>>) <=> p \in x.at + 1 .. x.at + 2
    BY <1>2, <2>1, <2>3, <2>4 DEF Skipped
  <2> QED  BY <2>5
<1> QED  BY <1>1, <1>2
-----------------------------------------------------------------------------
(* A writing call with something to do is not at the last point.           *)
LEMMA NextPoint ==
  ASSUME NEW h, History(h, root, Here, value, input, length), todo = << >>,
         NEW k \in 1 .. Len(h), h[k].todo # << >>
  PROVE  /\ k + 1 \in 1 .. Len(h) /\ h[k] \in Point /\ h[k + 1] \in Point
         /\ Follows(h[k], h[k + 1], value, input, length)
<1>1. h \in Seq(Point) /\ h[Len(h)] = Here /\ Chain(h, value, input, length)
  BY DEF History
<1>2. Here.todo = << >>
  BY DEF Here
<1>3. k # Len(h) /\ Len(h) \in Nat
  BY <1>1, <1>2, LenProperties
<1>4. k \in 1 .. Len(h) - 1 /\ k + 1 \in 1 .. Len(h)
  BY <1>3
<1> QED  BY <1>1, <1>4, ElementOfSeq DEF Chain

(* A point has tasks, a number of values and a number of bytes.            *)
LEMMA PointFacts ==
  ASSUME NEW c \in Point
  PROVE  c.todo \in Seq(Task) /\ c.n \in Nat /\ c.o \in Nat
BY DEF Point

(* The task at hand is the same for the writing and for the reading call.  *)
LEMMA SameTask ==
  ASSUME MTypeOK, left # << >>, NEW c \in Point, NEW lev, Reached(c, lev)
  PROVE  /\ c.todo # << >> /\ Head(c.todo) \in Task
         /\ Same(Head(left), Head(c.todo))
         /\ KindOf(Head(left)) = KindOf(Head(c.todo))
         /\ MDesc = Schema[Head(c.todo).type]
         /\ KindOf(Head(left)) = "close" <=> Head(left).do = "close"
<1>1. left \in Seq(Task) /\ c.todo \in Seq(Task)
  BY PointFacts DEF MTypeOK
<1>2. c.todo # << >> /\ Same(Head(left), Head(c.todo))
  BY <1>1, FollowRest DEF Reached
<1>3. Head(left) \in Task /\ Head(c.todo) \in Task
  BY <1>1, <1>2, Rest
<1>4. KindOf(Head(left)) = "close" <=> Head(left).do = "close"
  BY <1>3, TaskFacts DEF KindOf
<1> QED  BY <1>2, <1>3, <1>4 DEF Same, KindOf, MDesc

(* Calls that take the place of the task at hand, in both.                 *)
LEMMA CallsReach ==
  ASSUME MTypeOK, left # << >>, KindOf(Head(left)) # "close",
         NEW c \in Point, NEW lev, Reached(c, lev),
         NEW calls \in Seq(Task), NEW read \in Seq(Task), Matches(calls, read), NoClose(calls),
         NEW s, s = read \o Tail(c.todo), Then(calls)
  PROVE  /\ \E l : Follow(left', s, l, input, length) /\ l[1] = lev[1]
         /\ Skipped(left') = Skipped(left)
         /\ Nested(left, c.todo, length) => Nested(left', s, length)
<1>1. left \in Seq(Task) /\ c.todo \in Seq(Task) /\ left' = calls \o Tail(left)
  BY PointFacts DEF MTypeOK, Then
<1>2. c.todo # << >> /\ Head(left).do # "close"
  BY SameTask
<1>3. Follow(left, c.todo, lev, input, length)
  BY DEF Reached
<1>4. PICK r : Follow(Tail(left), Tail(c.todo), r, input, length) /\ r[1] = lev[1]
  BY <1>1, <1>2, <1>3, FollowRest
<1>5. /\ Tail(left) \in Seq(Task) /\ Tail(c.todo) \in Seq(Task)
      /\ Len(Tail(left)) = Len(Tail(c.todo)) /\ Len(left) = Len(c.todo)
      /\ Len(calls) = Len(read)
  BY <1>1, <1>2, <1>3, <1>4, Rest DEF Follow, Matches
<1>6. \E l : Follow(left', s, l, input, length) /\ l[1] = lev[1]
  <2>1. \E l : /\ Follow(calls \o Tail(left), read \o Tail(c.todo), l, input, length)
              /\ l[1] = r[1]
    <3>1. /\ calls \in Seq(Task) /\ read \in Seq(Task)
          /\ Matches(calls, read) /\ NoClose(calls)
          /\ Tail(left) \in Seq(Task) /\ Tail(c.todo) \in Seq(Task)
          /\ Follow(Tail(left), Tail(c.todo), r, input, length)
      BY <1>4, <1>5
    <3>2. \A x, y \in Seq(Task) : \A z, b, m : Follow(x, y, z, b, m) =>
            \E l : Follow(calls \o x, read \o y, l, b, m) /\ l[1] = z[1]
      BY CallsFollow
    <3>3. PICK x, y : x = Tail(left) /\ y = Tail(c.todo)
      OBVIOUS
    <3>4. Follow(x, y, r, input, length) /\ x \in Seq(Task) /\ y \in Seq(Task)
      BY <3>1, <3>3
    <3>5. PICK l : Follow(calls \o x, read \o y, l, input, length) /\ l[1] = r[1]
      BY <3>2, <3>4
    <3>6. Follow(calls \o Tail(left), read \o Tail(c.todo), l, input, length)
      BY <3>3, <3>5
    <3> QED  BY <3>5, <3>6
  <2> QED  BY <1>1, <1>4, <2>1
<1>7. Skipped(left') = Skipped(left)
  <2>1. Skipped(left') = Skipped(calls) \cup Skipped(Tail(left))
    BY <1>1, <1>5, SkippedConcat
  <2>2. Skipped(left) = Skipped(<<Head(left)>>) \cup Skipped(Tail(left))
    <3>1. left = <<Head(left)>> \o Tail(left) /\ <<Head(left)>> \in Seq(Task)
      BY <1>1
    <3> QED  BY <1>5, <3>1, SkippedConcat
  <2>3. NoClose(<<Head(left)>>)
    BY <1>2 DEF NoClose
  <2> QED  BY <2>1, <2>2, <2>3, SkippedFirst
<1>8. Nested(left, c.todo, length) => Nested(left', s, length)
  <2> SUFFICES ASSUME Nested(left, c.todo, length) PROVE Nested(left', s, length)
    OBVIOUS
  <2>1. Nested(Tail(left), Tail(c.todo), length)
    BY <1>1, <1>5, NestedRest
  <2> QED  BY <1>1, <1>5, <2>1, CallsNested
<1> QED  BY <1>6, <1>7, <1>8

(* The size fields that wait are behind the point reached.                 *)
LEMMA SkippedBehind ==
  ASSUME MTypeOK, ClosesBehind
  PROVE  Skipped(left) \subseteq 1 .. at
<1> SUFFICES ASSUME NEW p \in Skipped(left) PROVE p \in 1 .. at
  OBVIOUS
<1>1. PICK i \in 1 .. Len(left) : left[i].do = "close" /\ p \in left[i].at + 1 .. left[i].at + 2
  BY DEF Skipped
<1>2. left[i] \in Behind(at)
  BY <1>1, ElementOfSeq DEF ClosesBehind
<1>3. left[i].at \in Nat /\ left[i].at + 2 <= at
  BY <1>1, <1>2 DEF Behind, Task
<1>4. at \in Nat
  BY DEF MTypeOK
<1> QED  BY <1>1, <1>3, <1>4

(* Calls that write nothing.                                               *)
LEMMA EntersReach ==
  ASSUME MTypeOK, left # << >>, KindOf(Head(left)) # "close",
         NEW c \in Point, NEW d \in Point, NEW lev, Reached(c, lev),
         NEW calls \in Seq(Task), NEW read \in Seq(Task), Matches(calls, read), NoClose(calls),
         Stays(c, d, read), Then(calls),
         UNCHANGED <<next, capacity, bounded, room, at, memory, count, input, length>>
  PROVE  \E l : Reached(d, l)'
<1>1. d.todo = read \o Tail(c.todo) /\ d.n = c.n /\ d.o = c.o
  BY DEF Stays
<1>a. /\ \E l : Follow(left', d.todo, l, input, length) /\ l[1] = lev[1]
      /\ Skipped(left') = Skipped(left)
      /\ Nested(left, c.todo, length) => Nested(left', d.todo, length)
  BY <1>1, CallsReach
<1>2. PICK l : Follow(left', d.todo, l, input, length) /\ l[1] = lev[1]
  BY <1>a
<1>3. Skipped(left') = Skipped(left)
      /\ (Nested(left, c.todo, length) => Nested(left', d.todo, length))
  BY <1>a
<1>4. Charges(d, l[1])'
  BY <1>1, <1>2 DEF Reached, Charges
<1>5. Copies'
  BY DEF Reached, Copies
<1>6. IF Fits THEN Complete(d)' ELSE Lacks(d)'
  BY <1>1, <1>3 DEF Reached, Complete, Lacks
<1>7. Fits' = Fits /\ next' = d.n + 1
  BY <1>1 DEF Fits, Reached
<1> QED  BY <1>2, <1>4, <1>5, <1>6, <1>7 DEF Reached
(* The bytes b stored from offset o on, and what was there before.         *)
LEMMA StoredWhere ==
  ASSUME NEW b, NEW o
  PROVE  /\ DOMAIN Stored(b, o) = DOMAIN memory \cup (o + 1 .. o + Len(b))
         /\ \A p \in DOMAIN Stored(b, o) :
              Stored(b, o)[p] = IF p > o /\ p <= o + Len(b) THEN b[p - o] ELSE memory[p]
BY DEF Stored

(* A copy of more of the input.                                            *)
LEMMA StoredCopies ==
  ASSUME MTypeOK, Copies, NEW b, Len(b) \in Nat, NEW o \in Nat, Found(input, b, o)
  PROVE  \A p \in DOMAIN Stored(b, o) : p \in DOMAIN input /\ Stored(b, o)[p] = input[p]
<1> SUFFICES ASSUME NEW p \in DOMAIN Stored(b, o)
             PROVE  p \in DOMAIN input /\ Stored(b, o)[p] = input[p]
  OBVIOUS
<1>1. CASE p \in o + 1 .. o + Len(b)
  <2>1. p > o /\ p <= o + Len(b) /\ p - o \in 1 .. Len(b) /\ o + (p - o) = p
    BY <1>1
  <2>2. p \in DOMAIN input /\ input[p] = b[p - o]
    <3>1. o + (p - o) \in DOMAIN input /\ input[o + (p - o)] = b[p - o]
      BY <2>1 DEF Found
    <3> QED  BY <2>1, <3>1
  <2> QED  BY <2>1, <2>2, StoredWhere
<1>2. CASE p \notin o + 1 .. o + Len(b)
  <2>1. p \in DOMAIN memory
    BY <1>2, StoredWhere
  <2>2. p \in DOMAIN input /\ memory[p] = input[p]
    BY <2>1 DEF Copies
  <2>3. CASE p > o /\ p <= o + Len(b)
    <3>1. p \in Nat
      BY <2>1 DEF MTypeOK
    <3>2. p \in o + 1 .. o + Len(b)
      BY <2>3, <3>1
    <3> QED  BY <1>2, <3>2
  <2>4. CASE ~(p > o /\ p <= o + Len(b))
    BY <2>2, <2>4, StoredWhere
  <2> QED  BY <2>3, <2>4
<1> QED  BY <1>1, <1>2
(* What is put is what was read.                                           *)
LEMMA PutReaches ==
  ASSUME MTypeOK, ClosesBehind, left # << >>, KindOf(Head(left)) # "close",
         NEW c \in Point, NEW d \in Point, NEW lev, Reached(c, lev),
         NEW calls \in Seq(Task), NEW read \in Seq(Task), Matches(calls, read), NoClose(calls),
         NEW e \in Seq(Byte), Takes(c, d, value, input, read, e), Put(e), Then(calls),
         UNCHANGED <<capacity, bounded, input, length>>
  PROVE  \E l : Reached(d, l)'
<1>1. /\ d.todo = read \o Tail(c.todo) /\ d.n = c.n + 1 /\ d.o = c.o + Len(e)
      /\ Found(input, e, c.o)
  BY DEF Takes
<1>2. /\ Len(e) \in Nat /\ c.o \in Nat /\ c.n \in Nat /\ at \in Nat /\ room \in Int
      /\ capacity \in Nat /\ bounded \in BOOLEAN
  BY PointFacts, LenProperties DEF MTypeOK
<1>3. /\ \E l : Follow(left', d.todo, l, input, length) /\ l[1] = lev[1]
      /\ Skipped(left') = Skipped(left)
      /\ Nested(left, c.todo, length) => Nested(left', d.todo, length)
  BY <1>1, CallsReach
<1>4. PICK l : Follow(left', d.todo, l, input, length) /\ l[1] = lev[1]
  BY <1>3
<1>5. lev[1] \in Nat
  <2>1. left \in Seq(Task) /\ c.todo \in Seq(Task)
    BY PointFacts DEF MTypeOK
  <2> QED  BY <2>1, FollowRest DEF Reached
<1>6. /\ room' = IF bounded THEN room - Len(e) ELSE room
      /\ count' = (count + Len(e)) % 65536 /\ next' = next + 1
      /\ IF ~bounded \/ room - Len(e) >= 0
           THEN memory' = Stored(e, at) /\ at' = at + Len(e)
           ELSE memory' = memory /\ at' = at
  BY DEF Put, Returned
<1>7. next' = d.n + 1
  BY <1>1, <1>2, <1>6 DEF Reached
<1>8. Charges(d, l[1])'
  <2>1. count = (c.o - 2 * lev[1]) % 65536 /\ (bounded => room = capacity - (c.o - 2 * lev[1]))
    BY DEF Reached, Charges, CountAt
  <2>2. c.o - 2 * lev[1] \in Int
    BY <1>2, <1>5
  <2>3. (((c.o - 2 * lev[1]) % 65536) + Len(e)) % 65536 = ((c.o - 2 * lev[1]) + Len(e)) % 65536
    BY <1>2, <2>2, CutLater
  <2>4. (c.o - 2 * lev[1]) + Len(e) = d.o - 2 * lev[1]
    BY <1>1, <1>2, <1>5
  <2>5. count' = (d.o - 2 * lev[1]) % 65536
    BY <1>6, <2>1, <2>3, <2>4
  <2>6. ASSUME bounded PROVE room' = capacity - (d.o - 2 * lev[1])
    <3>1. room = capacity - (c.o - 2 * lev[1]) /\ room' = room - Len(e)
      BY <1>6, <2>1, <2>6
    <3>2. PICK x \in Int : x = c.o - 2 * lev[1]
      BY <2>2
    <3>3. d.o - 2 * lev[1] = x + Len(e)
      BY <2>4, <3>2
    <3>4. (capacity - x) - Len(e) = capacity - (x + Len(e))
      BY <1>2
    <3> QED  BY <3>1, <3>2, <3>3, <3>4
  <2> QED  BY <1>4, <2>5, <2>6 DEF Charges, CountAt
<1>9. CASE ~bounded \/ room - Len(e) >= 0
  <2>1. Fits /\ Fits' /\ memory' = Stored(e, at) /\ at' = at + Len(e)
    BY <1>2, <1>6, <1>9 DEF Fits
  <2>2. Complete(c)
    BY <2>1 DEF Reached
  <2>3. at = c.o /\ Nested(left, c.todo, length) /\ DOMAIN memory = (1 .. at) \ Skipped(left)
    BY <2>2 DEF Complete
  <2>4. Copies'
    <3>1. Copies
      BY DEF Reached
    <3>2. \A p \in DOMAIN Stored(e, at) : p \in DOMAIN input /\ Stored(e, at)[p] = input[p]
      BY <1>1, <1>2, <2>3, <3>1, StoredCopies
    <3> QED  BY <2>1, <3>2 DEF Copies
  <2>5. DOMAIN memory' = (1 .. at') \ Skipped(left')
    <3>1. DOMAIN memory' = ((1 .. at) \ Skipped(left)) \cup (at + 1 .. at + Len(e))
      BY <2>1, <2>3, StoredWhere
    <3>2. Skipped(left) \subseteq 1 .. at
      BY SkippedBehind
    <3>3. \A p \in at + 1 .. at + Len(e) : p \notin 1 .. at
      BY <1>2
    <3>4. 1 .. at + Len(e) = (1 .. at) \cup (at + 1 .. at + Len(e))
      BY <1>2
    <3> QED  BY <1>3, <2>1, <3>1, <3>2, <3>3, <3>4
  <2>6. Complete(d)'
    BY <1>1, <1>3, <2>1, <2>3, <2>5 DEF Complete
  <2> QED  BY <1>4, <1>7, <1>8, <2>1, <2>4, <2>6 DEF Reached
<1>10. CASE bounded /\ room - Len(e) < 0
  <2>1. ~Fits' /\ memory' = memory /\ at' = at
    BY <1>2, <1>6, <1>10 DEF Fits
  <2>2. Copies'
    BY <2>1 DEF Reached, Copies
  <2>3. Lacks(d)'
    <3>1. CASE Fits
      <4>1. Complete(c)
        BY <3>1 DEF Reached
      <4>2. at = c.o /\ DOMAIN memory = (1 .. at) \ Skipped(left)
        BY <4>1 DEF Complete
      <4>3. Len(e) > 0
        BY <1>2, <1>10, <3>1 DEF Fits
      <4>4. c.o + 1 \in 1 .. d.o /\ c.o + 1 \notin 1 .. at
        BY <1>1, <1>2, <4>2, <4>3
      <4> QED  BY <2>1, <4>2, <4>4 DEF Lacks
    <3>2. CASE ~Fits
      <4>1. PICK p \in 1 .. c.o : p \notin DOMAIN memory
        BY <3>2 DEF Reached, Lacks
      <4>2. p \in 1 .. d.o
        BY <1>1, <1>2
      <4> QED  BY <2>1, <4>1, <4>2 DEF Lacks
    <3> QED  BY <3>1, <3>2
  <2> QED  BY <1>4, <1>7, <1>8, <2>1, <2>2, <2>3 DEF Reached
<1> QED  BY <1>2, <1>9, <1>10
(* A call, and the end of the structure it is for, put in front of tasks.  *)
LEMMA SizedFollow ==
  ASSUME NEW u \in Task, NEW w \in Task, Same(u, w), u.do # "close",
         NEW x \in Task, NEW y \in Task, Same(x, y), x.do = "close",
         NEW s \in Seq(Task), NEW t \in Seq(Task), NEW lev, NEW b, NEW m,
         Follow(s, t, lev, b, m), Waits(x, y, lev[1], b, m)
  PROVE  /\ \E l : Follow(<<u, x>> \o s, <<w, y>> \o t, l, b, m) /\ l[1] = lev[1] + 1
         /\ Skipped(<<u, x>> \o s) = (x.at + 1 .. x.at + 2) \cup Skipped(s)
         /\ /\ Nested(s, t, m) /\ x.at = Begins(y, m)
            /\ \A i \in 1 .. Len(s) : s[i].do = "close" => s[i].at + 2 <= x.at
            => Nested(<<u, x>> \o s, <<w, y>> \o t, m)
<1>1. /\ <<u>> \in Seq(Task) /\ <<w>> \in Seq(Task) /\ <<x>> \in Seq(Task) /\ <<y>> \in Seq(Task)
      /\ Len(<<u>>) = 1 /\ Len(<<w>>) = 1 /\ <<u>>[1] = u /\ <<w>>[1] = w
      /\ <<u, x>> = <<u>> \o <<x>> /\ <<w, y>> = <<w>> \o <<y>>
  OBVIOUS
<1>2. <<u, x>> \o s = <<u>> \o (<<x>> \o s) /\ <<w, y>> \o t = <<w>> \o (<<y>> \o t)
  BY <1>1, ConcatAssociative
<1>3. PICK p, q : p = <<x>> \o s /\ q = <<y>> \o t
  OBVIOUS
<1>4. p \in Seq(Task) /\ q \in Seq(Task)
  BY <1>1, <1>3, Spliced
<1>5. Matches(<<u>>, <<w>>) /\ NoClose(<<u>>)
  BY <1>1 DEF Matches, NoClose
<1>6. PICK l : Follow(p, q, l, b, m) /\ l[1] = lev[1] + 1
  <2>1. \E l : Follow(<<x>> \o s, <<y>> \o t, l, b, m) /\ l[1] = lev[1] + 1
    BY CloseFollows
  <2> QED  BY <1>3, <2>1
<1>7. PICK k : Follow(<<u>> \o p, <<w>> \o q, k, b, m) /\ k[1] = l[1]
  <2>1. PICK f, g : f = <<u>> /\ g = <<w>>
    OBVIOUS
  <2>2. f \in Seq(Task) /\ g \in Seq(Task) /\ Matches(f, g) /\ NoClose(f)
    BY <1>1, <1>5, <2>1
  <2>3. \E k : Follow(f \o p, g \o q, k, b, m) /\ k[1] = l[1]
    BY <1>4, <1>6, <2>2, CallsFollow
  <2> QED  BY <2>1, <2>3
<1>8. Skipped(<<u>> \o p) = (x.at + 1 .. x.at + 2) \cup Skipped(s)
  <2>1. Skipped(<<u>> \o p) = Skipped(<<u>>) \cup Skipped(p)
    BY <1>1, <1>4, SkippedConcat
  <2>2. Skipped(p) = Skipped(<<x>>) \cup Skipped(s)
    BY <1>1, <1>3, SkippedConcat
  <2> QED  BY <1>5, <2>1, <2>2, SkippedFirst
<1>9. ASSUME Nested(s, t, m), x.at = Begins(y, m),
             \A i \in 1 .. Len(s) : s[i].do = "close" => s[i].at + 2 <= x.at
      PROVE  Nested(<<u>> \o p, <<w>> \o q, m)
  <2>1. Len(s) = Len(t) /\ Len(p) = Len(q)
    BY <1>6 DEF Follow, Matches
  <2>2. Nested(<<x>> \o s, <<y>> \o t, m)
    BY <1>9, <2>1, CloseNested
  <2>3. Nested(p, q, m)
    BY <1>3, <2>2
  <2> QED  BY <1>1, <1>4, <1>5, <2>1, <2>3, CallsNested
<1>10. <<u, x>> \o s = <<u>> \o p /\ <<w, y>> \o t = <<w>> \o q
  BY <1>2, <1>3
<1> QED  BY <1>6, <1>7, <1>8, <1>9, <1>10
(* A size field is stepped over where the reading call took it.            *)
LEMMA HeaderReaches ==
  ASSUME MTypeOK, UTypeOK, ClosesBehind, left # << >>, source = value,
         NEW c \in Point, NEW d \in Point, NEW lev, Reached(c, lev),
         HeaderTaken(c, d, value, input, length), WriteSizedHeader, UNCHANGED <<input, length>>
  PROVE  \E l : Reached(d, l)'
<1> DEFINE u == CallFor(MDesc.element, FALSE, 1)
           w == CallFor(Schema[Head(c.todo).type].element, Head(c.todo).flag, 1)
           x == CloseOf(Head(left).type, count, at)
           y == CloseOf(Head(c.todo).type, Number(value[c.n + 1]), length - c.o - 2)
<1>1. /\ KindOf(Head(left)) = "sized" /\ left' = <<u, x>> \o Tail(left)
      /\ at' = at + 2 /\ next' = next + 1
      /\ UNCHANGED <<capacity, bounded, room, memory, count>>
  BY DEF WriteSizedHeader, Writing, Then
<1>2. /\ d.todo = <<w, y>> \o Tail(c.todo) /\ d.n = c.n + 1
      /\ d.o = c.o + Len(ToBytes(value[c.n + 1], 2))
      /\ Found(input, ToBytes(value[c.n + 1], 2), c.o)
      /\ c.n + 1 \in DOMAIN value /\ Len(value[c.n + 1]) = 1 /\ c.o + 2 <= length
  BY DEF HeaderTaken, Takes
<1>3. /\ c.o \in Nat /\ c.n \in Nat /\ at \in Nat /\ length \in Nat
      /\ left \in Seq(Task) /\ c.todo \in Seq(Task) /\ count \in Word
  BY PointFacts DEF MTypeOK, UTypeOK
<1>4. /\ c.todo # << >> /\ Head(c.todo) \in Task /\ Same(Head(left), Head(c.todo))
      /\ MDesc = Schema[Head(c.todo).type] /\ Head(left).do # "close"
      /\ Head(left).type = Head(c.todo).type
  BY <1>1, SameTask DEF Same
<1>5. value[c.n + 1] \in Seq(Word) /\ value[c.n + 1][1] \in Word
  <2>1. value[c.n + 1] \in Seq(Word)
    BY <1>2, ElementOfSeq DEF MTypeOK
  <2> QED  BY <1>2, <2>1, ElementOfSeq
<1>6. /\ Number(value[c.n + 1]) = value[c.n + 1][1] /\ value[c.n + 1] = <<value[c.n + 1][1]>>
      /\ Len(ToBytes(value[c.n + 1], 2)) = 2
  <2>1. Len(ToBytes(value[c.n + 1], 2)) = 2
    BY <1>2, <1>5, ToBytesType DEF WordsOf
  <2>2. value[c.n + 1] = <<value[c.n + 1][1]>>
    BY <1>2, <1>5
  <2> QED  BY <1>2, <2>1, <2>2 DEF Number
<1>7. /\ length - c.o - 2 \in Nat /\ Number(value[c.n + 1]) \in Nat /\ count \in Nat
      /\ length - (length - c.o - 2) - 2 = c.o
  <2>1. \A o, m \in Nat : o + 2 <= m => m - o - 2 \in Nat /\ m - (m - o - 2) - 2 = o
    OBVIOUS
  <2>2. length - c.o - 2 \in Nat /\ length - (length - c.o - 2) - 2 = c.o
    BY <1>2, <1>3, <2>1
  <2> QED  BY <1>3, <1>5, <1>6, <2>2, WordsAreNat
<1>8. /\ u \in Task /\ w \in Task /\ u.do # "close" /\ Same(u, w)
  <2>1. MDesc.element \in Field
    BY <1>1, <1>3, WriteTask, TaskFacts DEF Shape, MDesc
  <2>2. Head(c.todo).flag \in BOOLEAN /\ FALSE \in BOOLEAN /\ 1 \in Nat \ {0}
    BY <1>4, TaskFacts
  <2>3. u \in Task /\ u.do = "call" /\ w \in Task /\ w.do = "call"
    BY <1>4, <2>1, <2>2, CallForType
  <2>4. Same(u, w)
    BY <1>4, <2>3 DEF Same, CallFor
  <2> QED  BY <2>3, <2>4
<1>9. /\ x \in Task /\ y \in Task /\ x.do = "close" /\ Same(x, y) /\ x.n = count /\ x.at = at
      /\ y.n = value[c.n + 1][1] /\ Begins(y, length) = c.o
  <2>1. Head(left).type \in Types /\ Head(c.todo).type \in Types
    BY <1>4, TaskFacts
  <2>2. x \in Task /\ x.do = "close" /\ x.at = at
    <3>1. count \in Nat /\ at \in Nat
      BY <1>3, <1>7
    <3> QED  BY <2>1, <3>1, CloseOfType
  <2>6. y \in Task
    BY <1>7, <2>1, CloseOfType
  <2>3. x.n = count /\ y.n = value[c.n + 1][1] /\ y.at = length - c.o - 2
    BY <1>6 DEF CloseOf
  <2>4. Begins(y, length) = c.o
    BY <1>7, <2>3 DEF Begins
  <2>5. Same(x, y)
    BY <1>4 DEF Same, CloseOf
  <2> QED  BY <2>2, <2>3, <2>4, <2>5, <2>6
<1>10. next' = d.n + 1
  BY <1>1, <1>2, <1>3 DEF Reached
<1>11. count = CountAt(c.o, lev[1]) /\ (bounded => room = capacity - (c.o - 2 * lev[1]))
  BY DEF Reached, Charges
<1> HIDE DEF u, w, x, y
<1>12. /\ lev[1] \in Nat /\ Tail(left) \in Seq(Task) /\ Tail(c.todo) \in Seq(Task)
       /\ \E r : Follow(Tail(left), Tail(c.todo), r, input, length) /\ r[1] = lev[1]
  <2>1. Follow(left, c.todo, lev, input, length)
    BY DEF Reached
  <2>2. lev[1] \in Nat /\ lev[1] = lev[2]
        /\ \E r : Follow(Tail(left), Tail(c.todo), r, input, length) /\ r[1] = lev[2]
    BY <1>3, <1>4, <2>1, FollowRest
  <2>3. Tail(left) \in Seq(Task) /\ Tail(c.todo) \in Seq(Task)
    BY <1>3, <1>4, Rest
  <2> QED  BY <2>2, <2>3
<1>13. PICK r : Follow(Tail(left), Tail(c.todo), r, input, length) /\ r[1] = lev[1]
  BY <1>12
<1>a. PICK s \in Seq(Task), t \in Seq(Task) :
         s = Tail(left) /\ t = Tail(c.todo) /\ Follow(s, t, r, input, length)
  BY <1>12, <1>13
<1>14. Waits(x, y, r[1], input, length)
  <2>1. <<y.n>> = value[c.n + 1] /\ y.n \in Word
    BY <1>5, <1>6, <1>9
  <2>2. Found(input, ToBytes(<<y.n>>, 2), Begins(y, length)) /\ Begins(y, length) \in Nat
    BY <1>2, <1>3, <1>9, <2>1
  <2>3. x.n = CountAt(Begins(y, length), r[1])
    BY <1>9, <1>11, <1>13, <1>a
  <2> QED  BY <2>1, <2>2, <2>3 DEF Waits
<1>15. /\ \E l : Follow(<<u, x>> \o s, <<w, y>> \o t, l, input, length) /\ l[1] = r[1] + 1
       /\ Skipped(<<u, x>> \o s) = (x.at + 1 .. x.at + 2) \cup Skipped(s)
       /\ /\ Nested(s, t, length) /\ x.at = Begins(y, length)
          /\ \A i \in 1 .. Len(s) : s[i].do = "close" => s[i].at + 2 <= x.at
          => Nested(<<u, x>> \o s, <<w, y>> \o t, length)
  <2>1. PICK i, j, k, z : i = u /\ j = w /\ k = x /\ z = y
    OBVIOUS
  <2>2. /\ i \in Task /\ j \in Task /\ i.do # "close" /\ Same(i, j)
        /\ k \in Task /\ z \in Task /\ k.do = "close" /\ Same(k, z)
        /\ Waits(k, z, r[1], input, length)
    BY <1>8, <1>9, <1>14, <2>1
  <2>3. /\ \E l : Follow(<<i, k>> \o s, <<j, z>> \o t, l, input, length) /\ l[1] = r[1] + 1
        /\ Skipped(<<i, k>> \o s) = (k.at + 1 .. k.at + 2) \cup Skipped(s)
        /\ /\ Nested(s, t, length) /\ k.at = Begins(z, length)
           /\ \A n \in 1 .. Len(s) : s[n].do = "close" => s[n].at + 2 <= k.at
           => Nested(<<i, k>> \o s, <<j, z>> \o t, length)
    <3>1. s \in Seq(Task) /\ t \in Seq(Task) /\ Follow(s, t, r, input, length)
      BY <1>13, <1>a
    <3> QED  BY <2>2, <3>1, SizedFollow, Zenon
  <2> QED  BY <2>1, <2>3, Zenon
<1>16. left' = <<u, x>> \o s /\ d.todo = <<w, y>> \o t
  BY <1>1, <1>2, <1>13, <1>a
<1>17. PICK l : Follow(left', d.todo, l, input, length) /\ l[1] = lev[1] + 1
  BY <1>13, <1>a, <1>15, <1>16
<1>18. Charges(d, l[1])'
  <2>1. d.o - 2 * (lev[1] + 1) = c.o - 2 * lev[1]
    <3>1. \A o, z \in Nat : (o + 2) - 2 * (z + 1) = o - 2 * z
      OBVIOUS
    <3>2. d.o = c.o + 2
      BY <1>2, <1>6
    <3> QED  BY <1>3, <1>12, <3>1, <3>2, ZenonT(60)
  <2> QED  BY <1>1, <1>11, <1>17, <2>1 DEF Charges, CountAt
<1>19. Copies' /\ Fits' = Fits
  BY <1>1 DEF Reached, Copies, Fits
<1>20. CASE Fits
  <2>1. /\ at = c.o /\ Nested(left, c.todo, length)
        /\ DOMAIN memory = (1 .. at) \ Skipped(left)
    BY <1>20 DEF Reached, Complete
  <2>2. Nested(left', d.todo, length)
    <3>1. Len(left) = Len(c.todo)
      BY DEF Reached, Follow, Matches
    <3>2. Nested(s, t, length)
      BY <1>3, <1>13, <1>a, <2>1, <3>1, NestedRest
    <3>3. \A i \in 1 .. Len(s) : s[i].do = "close" => s[i].at + 2 <= at
      <4>1. \A i \in 1 .. Len(s) : s[i] \in Behind(at)
        <5>1. left \in Seq(Behind(at))
          BY DEF ClosesBehind
        <5>2. s \in Seq(Behind(at))
          BY <1>13, <1>a, <5>1, Rest
        <5> QED  BY <5>2, ElementOfSeq
      <4> QED  BY <4>1 DEF Behind
    <3> QED  BY <1>9, <1>15, <1>16, <2>1, <3>2, <3>3
  <2>3. DOMAIN memory' = (1 .. at') \ Skipped(left')
    <3>1. Skipped(left) = Skipped(s)
      <4>1. left = <<Head(left)>> \o Tail(left) /\ <<Head(left)>> \in Seq(Task)
        BY <1>3
      <4>2. Skipped(left) = Skipped(<<Head(left)>>) \cup Skipped(Tail(left))
        BY <1>12, <4>1, SkippedConcat
      <4>3. NoClose(<<Head(left)>>)
        BY <1>4 DEF NoClose
      <4> QED  BY <1>13, <1>a, <4>2, <4>3, SkippedFirst
    <3>2. Skipped(left') = (at + 1 .. at + 2) \cup Skipped(left)
      BY <1>9, <1>15, <1>16, <3>1
    <3>3. 1 .. at + 2 = (1 .. at) \cup (at + 1 .. at + 2)
          /\ \A p \in at + 1 .. at + 2 : p \notin 1 .. at
      BY <1>3
    <3> QED  BY <1>1, <2>1, <3>2, <3>3
  <2>4. Complete(d)'
    BY <1>1, <1>2, <1>6, <2>1, <2>2, <2>3 DEF Complete
  <2> QED  BY <1>10, <1>17, <1>18, <1>19, <1>20, <2>4 DEF Reached
<1>21. CASE ~Fits
  <2>1. PICK p \in 1 .. c.o : p \notin DOMAIN memory
    BY <1>21 DEF Reached, Lacks
  <2>2. p \in 1 .. d.o
    BY <1>2, <1>3, <1>6
  <2>3. Lacks(d)'
    BY <1>1, <2>1, <2>2 DEF Lacks
  <2> QED  BY <1>10, <1>17, <1>18, <1>19, <1>21, <2>3 DEF Reached
<1> QED  BY <1>20, <1>21

(* The size of a structure that was read: what the counts differ by, o and *)
(* a being the offsets of its end and of its size field.                   *)
LEMMA SizeCounted ==
  ASSUME NEW o \in Nat, NEW a \in Nat, NEW z \in Nat, NEW n \in Word, n = o - a - 2
  PROVE  (CountAt(o, z + 1) - CountAt(a, z)) % 65536 = n
<1>1. o - 2 * (z + 1) \in Int /\ a - 2 * z \in Int
      /\ (o - 2 * (z + 1)) - (a - 2 * z) = n
  OBVIOUS
<1>2. (((o - 2 * (z + 1)) % 65536) - ((a - 2 * z) % 65536)) % 65536
        = ((o - 2 * (z + 1)) - (a - 2 * z)) % 65536
  BY <1>1, CutDifference
<1>3. n \in Nat /\ n < 65536
  BY SMTT(30) DEF Word
<1>4. n % 65536 = n
  BY <1>3, CutNothing
<1> QED  BY <1>1, <1>2, <1>4 DEF CountAt

(* Charging the two bytes of a size field that waited.                     *)
LEMMA TwoCounted ==
  ASSUME NEW o \in Nat, NEW z \in Nat
  PROVE  (CountAt(o, z + 1) + 2) % 65536 = CountAt(o, z)
<1>1. o - 2 * (z + 1) \in Int /\ (o - 2 * (z + 1)) + 2 = o - 2 * z
  OBVIOUS
<1>2. (((o - 2 * (z + 1)) % 65536) + 2) % 65536 = ((o - 2 * (z + 1)) + 2) % 65536
  BY <1>1, CutLater
<1> QED  BY <1>1, <1>2 DEF CountAt

(* The size written is the one that was read.                              *)
LEMMA SizeReaches ==
  ASSUME MTypeOK, UTypeOK, ClosesBehind, left # << >>,
         NEW c \in Point, NEW d \in Point, NEW lev, Reached(c, lev),
         SizeHeld(c, d, length), WriteSize, UNCHANGED <<input, length>>
  PROVE  \E l : Reached(d, l)'
<1> DEFINE x == Head(left)
           y == Head(c.todo)
           size2 == ToBytes(<<(count - x.n) % 65536>>, 2)
<1>1. /\ KindOf(x) = "close" /\ left' = << >> \o Tail(left)
      /\ room' = (IF bounded THEN room - 2 ELSE room)
      /\ IF ~bounded \/ room - 2 >= 0 THEN memory' = Stored(size2, x.at) ELSE memory' = memory
      /\ count' = (count + 2) % 65536
      /\ UNCHANGED <<next, capacity, bounded, at>>
  BY DEF WriteSize, Writing, Then, Returned
<1>2. y.n = y.at - (length - c.o) /\ d.todo = << >> \o Tail(c.todo) /\ d.n = c.n /\ d.o = c.o
  BY DEF SizeHeld, Stays
<1>3. /\ c.o \in Nat /\ at \in Nat /\ length \in Nat /\ room \in Int /\ capacity \in Nat
      /\ left \in Seq(Task) /\ c.todo \in Seq(Task) /\ bounded \in BOOLEAN
  BY PointFacts DEF MTypeOK, UTypeOK
<1>4. c.todo # << >> /\ y \in Task /\ x \in Task /\ x.do = "close"
  BY <1>1, <1>3, SameTask, Rest
<1>5. x.at \in Nat /\ y.at \in Nat /\ y.n \in Nat
  BY <1>4, TaskFacts
<1>6. Follow(left, c.todo, lev, input, length)
  BY DEF Reached
<1>7. /\ lev[1] = lev[2] + 1 /\ lev[2] \in Nat /\ Waits(x, y, lev[2], input, length)
      /\ \E l : Follow(Tail(left), Tail(c.todo), l, input, length) /\ l[1] = lev[2]
  BY <1>3, <1>4, <1>6, FollowRest
<1>8. /\ Tail(left) \in Seq(Task) /\ Tail(c.todo) \in Seq(Task)
      /\ left' = Tail(left) /\ d.todo = Tail(c.todo)
  <2>1. Tail(left) \in Seq(Task) /\ Tail(c.todo) \in Seq(Task)
    BY <1>3, <1>4, Rest
  <2> QED  BY <1>1, <1>2, <2>1, ConcatEmptySeq
<1>9. PICK l : Follow(left', d.todo, l, input, length) /\ l[1] = lev[2]
  BY <1>7, <1>8
<1>10. PICK a \in Nat : a = Begins(y, length)
  BY <1>7 DEF Waits
<1>11. /\ x.n = CountAt(a, lev[2]) /\ count = CountAt(c.o, lev[2] + 1)
       /\ y.n \in Word /\ Found(input, ToBytes(<<y.n>>, 2), a)
  BY <1>7, <1>10 DEF Waits, Reached, Charges
<1>12. y.n = c.o - a - 2
  <2>1. \A o, m, z, k \in Nat : z = k - (m - o) => z = o - (m - k - 2) - 2
    OBVIOUS
  <2> HIDE DEF y
  <2>2. a = length - y.at - 2
    BY <1>10 DEF Begins
  <2>3. y.n = c.o - (length - y.at - 2) - 2
    BY <1>2, <1>3, <1>5, <2>1
  <2> QED  BY <2>2, <2>3
<1>13. (count - x.n) % 65536 = y.n
  <2>1. PICK z \in Nat, n \in Word, o \in Nat : z = lev[2] /\ n = y.n /\ o = c.o
    BY <1>3, <1>7, <1>11
  <2>2. n = o - a - 2
    BY <1>12, <2>1
  <2>3. (CountAt(o, z + 1) - CountAt(a, z)) % 65536 = n
    BY <2>2, SizeCounted
  <2>4. count = CountAt(o, z + 1) /\ x.n = CountAt(a, z) /\ n = y.n
    BY <1>11, <2>1
  <2> QED  BY <2>3, <2>4
<1>14. Found(input, size2, a) /\ Len(size2) = 2
  <2>1. <<y.n>> \in Seq(Word) /\ Len(<<y.n>>) = 1
    BY <1>11
  <2>2. PICK v \in Seq(Word) : v = <<y.n>> /\ Len(v) = 1
    BY <2>1
  <2>3. WordsOf(2) = 1 /\ 2 \in {1, 2, 4, 8}
    BY DEF WordsOf
  <2>4. Len(ToBytes(v, 2)) = 2
    BY <2>2, <2>3, ToBytesType
  <2> QED  BY <1>11, <1>13, <2>2, <2>4
<1> HIDE DEF size2
<1>15. Charges(d, l[1])'
  <2>1. count' = CountAt(c.o, lev[2])
    <3>1. (CountAt(c.o, lev[2] + 1) + 2) % 65536 = CountAt(c.o, lev[2])
      <4>1. PICK z \in Nat, o \in Nat : z = lev[2] /\ o = c.o
        BY <1>3, <1>7
      <4>2. (CountAt(o, z + 1) + 2) % 65536 = CountAt(o, z)
        BY TwoCounted
      <4> QED  BY <4>1, <4>2
    <3> QED  BY <1>1, <1>11, <3>1
  <2>2. ASSUME bounded PROVE room' = capacity - (c.o - 2 * lev[2])
    <3>1. room = capacity - (c.o - 2 * (lev[2] + 1)) /\ room' = room - 2
      BY <1>1, <1>7, <2>2 DEF Reached, Charges
    <3>2. \A k, o, z \in Nat : (k - (o - 2 * (z + 1))) - 2 = k - (o - 2 * z)
      OBVIOUS
    <3> QED  BY <1>3, <1>7, <3>1, <3>2
  <2> QED  BY <1>1, <1>2, <1>9, <2>1, <2>2 DEF Charges
<1>16. next' = d.n + 1
  BY <1>1, <1>2 DEF Reached
<1>17. Skipped(left) = (x.at + 1 .. x.at + 2) \cup Skipped(left')
  <2>1. left = <<x>> \o Tail(left) /\ <<x>> \in Seq(Task)
    BY <1>3, <1>4
  <2>2. Skipped(left) = Skipped(<<x>>) \cup Skipped(Tail(left))
    BY <1>8, <2>1, SkippedConcat
  <2> QED  BY <1>4, <1>8, <2>2, SkippedFirst
<1>18. Skipped(left) \subseteq 1 .. at
  BY SkippedBehind
<1>19. ASSUME Fits
       PROVE  /\ at = c.o /\ x.at = a /\ Nested(left', d.todo, length)
              /\ DOMAIN memory = (1 .. at) \ Skipped(left)
              /\ \A p \in x.at + 1 .. x.at + 2 : p \notin Skipped(left')
  <2>1. at = c.o /\ Nested(left, c.todo, length) /\ DOMAIN memory = (1 .. at) \ Skipped(left)
    BY <1>19 DEF Reached, Complete
  <2>2. Len(left) = Len(c.todo)
    BY <1>6 DEF Follow, Matches
  <2>3. /\ Nested(Tail(left), Tail(c.todo), length) /\ x.at = Begins(y, length)
        /\ \A i \in 1 .. Len(Tail(left)) :
             Tail(left)[i].do = "close" => Tail(left)[i].at + 2 <= x.at
    BY <1>3, <1>4, <2>1, <2>2, NestedRest
  <2>4. ASSUME NEW p \in x.at + 1 .. x.at + 2 PROVE p \notin Skipped(left')
    <3> SUFFICES ASSUME p \in Skipped(left') PROVE FALSE
      OBVIOUS
    <3>1. PICK i \in 1 .. Len(left') : left'[i].do = "close" /\ p \in left'[i].at + 1 .. left'[i].at + 2
      BY DEF Skipped
    <3>2. left'[i].at + 2 <= x.at
      BY <1>8, <2>3, <3>1
    <3>3. left'[i].at \in Nat
      BY <1>8, <3>1, ElementOfSeq, TaskFacts
    <3> QED  BY <1>5, <3>1, <3>2, <3>3
  <2> QED  BY <1>8, <1>10, <2>1, <2>3, <2>4
<1> HIDE DEF x, y
<1>20. CASE ~bounded \/ room - 2 >= 0
  <2>1. Fits /\ Fits' /\ memory' = Stored(size2, x.at)
    BY <1>1, <1>3, <1>20 DEF Fits
  <2>2. Copies'
    <3>1. Copies
      BY DEF Reached
    <3>2. \A p \in DOMAIN Stored(size2, a) : p \in DOMAIN input /\ Stored(size2, a)[p] = input[p]
      BY <1>14, <3>1, StoredCopies
    <3> QED  BY <1>19, <2>1, <3>2 DEF Copies
  <2>3. DOMAIN memory' = (1 .. at') \ Skipped(left')
    <3>1. DOMAIN memory' = ((1 .. at) \ Skipped(left)) \cup (x.at + 1 .. x.at + 2)
      BY <1>14, <1>19, <2>1, StoredWhere
    <3> QED  BY <1>1, <1>17, <1>18, <1>19, <2>1, <3>1
  <2>4. Complete(d)'
    BY <1>1, <1>2, <1>19, <2>1, <2>3 DEF Complete
  <2> QED  BY <1>9, <1>15, <1>16, <2>1, <2>2, <2>4 DEF Reached
<1>21. CASE bounded /\ room - 2 < 0
  <2>1. ~Fits' /\ memory' = memory
    BY <1>1, <1>3, <1>21 DEF Fits
  <2>2. Copies'
    BY <2>1 DEF Reached, Copies
  <2>3. Lacks(d)'
    <3>1. CASE Fits
      <4>1. x.at + 1 \in x.at + 1 .. x.at + 2
        BY <1>5 DEF x
      <4>2. x.at + 1 \in Skipped(left) /\ x.at + 1 \in 1 .. at
        BY <1>17, <1>18, <4>1
      <4> QED  BY <1>2, <1>19, <2>1, <3>1, <4>2 DEF Lacks
    <3>2. CASE ~Fits
      BY <1>2, <2>1, <3>2 DEF Reached, Lacks
    <3> QED  BY <3>1, <3>2
  <2> QED  BY <1>9, <1>15, <1>16, <2>1, <2>2, <2>3 DEF Reached
<1> QED  BY <1>3, <1>20, <1>21
(* The kind of the task at hand tells which step of the reading call it    *)
(* was.                                                                    *)
LEMMA KindTells ==
  ASSUME NEW c, NEW d, NEW v, NEW b, NEW m, Follows(c, d, v, b, m)
  PROVE  /\ KindOf(Head(c.todo)) = "integer" => IntegerTaken(c, d, v, b)
         /\ KindOf(Head(c.todo)) = "buffer" => SizeTaken(c, d, v, b)
         /\ KindOf(Head(c.todo)) = "bytes" => BytesTaken(c, d, v, b)
         /\ KindOf(Head(c.todo)) = "list" => CountTaken(c, d, v, b)
         /\ KindOf(Head(c.todo)) = "struct" => StructEntered(c, d)
         /\ KindOf(Head(c.todo)) = "union" => UnionEntered(c, d, v)
         /\ KindOf(Head(c.todo)) = "sized" => EmptyTaken(c, v) \/ HeaderTaken(c, d, v, b, m)
         /\ KindOf(Head(c.todo)) = "close" => SizeHeld(c, d, m)
<1> DEFINE k == KindOf(Head(c.todo))
<1>1. /\ IntegerTaken(c, d, v, b) => k = "integer"
      /\ SizeTaken(c, d, v, b) => k = "buffer"
      /\ BytesTaken(c, d, v, b) => k = "bytes"
      /\ CountTaken(c, d, v, b) => k = "list"
      /\ StructEntered(c, d) => k = "struct"
      /\ UnionEntered(c, d, v) => k = "union"
      /\ EmptyTaken(c, v) => k = "sized"
      /\ HeaderTaken(c, d, v, b, m) => k = "sized"
      /\ SizeHeld(c, d, m) => k = "close"
  BY Zenon DEF IntegerTaken, SizeTaken, BytesTaken, CountTaken, StructEntered, UnionEntered,
               EmptyTaken, HeaderTaken, SizeHeld
<1> HIDE DEF k
<1>2. /\ k = "integer" => IntegerTaken(c, d, v, b)
      /\ k = "buffer" => SizeTaken(c, d, v, b)
      /\ k = "bytes" => BytesTaken(c, d, v, b)
      /\ k = "list" => CountTaken(c, d, v, b)
      /\ k = "struct" => StructEntered(c, d)
      /\ k = "union" => UnionEntered(c, d, v)
      /\ k = "sized" => EmptyTaken(c, v) \/ HeaderTaken(c, d, v, b, m)
      /\ k = "close" => SizeHeld(c, d, m)
  BY <1>1 DEF Follows
<1> QED  BY <1>2 DEF k

(* The same tasks match.                                                   *)
LEMMA SameMatches ==
  /\ \A s : Matches(s, s)
  /\ \A s \in Seq({k \in Task : k.do = "call"}) : NoClose(s)
  /\ \A x : x.do # "close" => NoClose(<<x>>)
<1>1. \A s : Matches(s, s)
  BY DEF Matches, Same
<1>2. \A s \in Seq({k \in Task : k.do = "call"}) : NoClose(s)
  <2> SUFFICES ASSUME NEW s \in Seq({k \in Task : k.do = "call"}), NEW i \in 1 .. Len(s)
               PROVE  s[i].do # "close"
    BY DEF NoClose
  <2>1. s[i] \in {k \in Task : k.do = "call"}
    BY ElementOfSeq
  <2> QED  BY <2>1
<1>3. \A x : x.do # "close" => NoClose(<<x>>)
  BY DEF NoClose
<1> QED  BY <1>1, <1>2, <1>3

(* The fields of a structure are called with the flag or without it.       *)
LEMMA FieldsMatch ==
  ASSUME NEW fields, NEW f, NEW g, NEW n, Len(fields) \in Nat
  PROVE  Matches(CallsFor(fields, f, n), CallsFor(fields, g, n))
<1>1. /\ DOMAIN CallsFor(fields, f, n) = 1 .. Len(fields)
      /\ DOMAIN CallsFor(fields, g, n) = 1 .. Len(fields)
      /\ \A i \in 1 .. Len(fields) : /\ CallsFor(fields, f, n)[i] = CallFor(fields[i], f, n)
                                    /\ CallsFor(fields, g, n)[i] = CallFor(fields[i], g, n)
  BY DEF CallsFor
<1>2. Len(CallsFor(fields, f, n)) = Len(fields) /\ Len(CallsFor(fields, g, n)) = Len(fields)
  BY DEF CallsFor
<1>3. \A i \in 1 .. Len(fields) : Same(CallFor(fields[i], f, n), CallFor(fields[i], g, n))
  BY DEF Same, CallFor
<1> QED  BY <1>1, <1>2, <1>3 DEF Matches
(* The writing call takes the step the reading call took.                  *)
LEMMA WriteReaches ==
  ASSUME MTypeOK, UTypeOK, ClosesBehind, source = value, left # << >>, MNext,
         UNCHANGED <<input, length>>,
         NEW c \in Point, NEW d \in Point, NEW lev, Reached(c, lev),
         Follows(c, d, value, input, length)
  PROVE  \E l : Reached(d, l)'
<1>1. /\ Same(Head(left), Head(c.todo)) /\ KindOf(Head(left)) = KindOf(Head(c.todo))
      /\ MDesc = Schema[Head(c.todo).type] /\ Head(left).type = Head(c.todo).type
      /\ c.todo # << >> /\ Head(c.todo) \in Task
  BY SameTask DEF Same
<1>2. next = c.n + 1 /\ source[next] = value[c.n + 1]
  BY DEF Reached
<1>3. << >> \in Seq(Task) /\ Matches(<< >>, << >>) /\ NoClose(<< >>)
      /\ FALSE \in BOOLEAN /\ 1 \in Nat \ {0}
  BY EmptySeq, SameMatches DEF NoClose
<1>4. ASSUME NextIsInteger, KindOf(Head(left)) \in {"integer", "buffer", "list"}
      PROVE  /\ MDesc.kind = KindOf(Head(left))
             /\ ToBytes(source[next], MDesc.width) \in Seq(Byte)
             /\ Number(source[next]) \in Nat
  <2>1. MDesc.kind = KindOf(Head(left)) /\ MDesc.width \in {1, 2, 4, 8}
    BY <1>4, WriteTask, TaskFacts DEF MDesc, Shape
  <2>2. source[next] \in Seq(Word) /\ Len(source[next]) = WordsOf(MDesc.width)
    BY <1>4, LenProperties, ElementOfSeq DEF NextIsInteger, MTypeOK
  <2>3. Len(source[next]) >= 1
    BY <2>1, <2>2 DEF WordsOf
  <2> QED  BY <2>1, <2>2, <2>3, ToBytesType, NumberType
<1>5. ASSUME KindOf(Head(left)) # "close", NEW calls \in Seq(Task), NoClose(calls),
             NEW e \in Seq(Byte), Takes(c, d, value, input, calls, e), Put(e), Then(calls),
             UNCHANGED <<capacity, bounded>>
      PROVE  \E l : Reached(d, l)'
  <2>1. Matches(calls, calls)
    BY SameMatches
  <2> QED  BY <1>5, <2>1, PutReaches
<1>6. CASE WriteInteger
  <2>1. /\ KindOf(Head(left)) = "integer" /\ NextIsInteger
        /\ Put(ToBytes(source[next], MDesc.width)) /\ Then(<< >>)
        /\ UNCHANGED <<capacity, bounded>>
    BY <1>6 DEF WriteInteger, Writing
  <2>2. Takes(c, d, value, input, << >>, ToBytes(source[next], MDesc.width))
    BY <1>1, <1>2, <2>1, KindTells DEF IntegerTaken
  <2>3. PICK e \in Seq(Byte), s \in Seq(Task) :
          e = ToBytes(source[next], MDesc.width) /\ s = << >>
    BY <1>3, <1>4, <2>1
  <2> QED  BY <1>3, <1>5, <2>1, <2>2, <2>3
<1>7. CASE WriteBufferSize
  <2>1. /\ KindOf(Head(left)) = "buffer" /\ NextIsInteger
        /\ Put(ToBytes(source[next], MDesc.width))
        /\ Then(<<ArrayOf(Head(left).type, Number(source[next]))>>)
        /\ UNCHANGED <<capacity, bounded>>
    BY <1>7 DEF WriteBufferSize, Writing
  <2>2. Takes(c, d, value, input, <<ArrayOf(Head(left).type, Number(source[next]))>>,
              ToBytes(source[next], MDesc.width))
    BY <1>1, <1>2, <2>1, KindTells DEF SizeTaken
  <2>3. /\ ArrayOf(Head(left).type, Number(source[next])) \in Task
        /\ ArrayOf(Head(left).type, Number(source[next])).do # "close"
    BY <1>4, <2>1, WriteTask, ArrayOfType
  <2>4. PICK e \in Seq(Byte), s \in Seq(Task) :
          /\ e = ToBytes(source[next], MDesc.width)
          /\ s = <<ArrayOf(Head(left).type, Number(source[next]))>> /\ NoClose(s)
    BY <1>4, <2>1, <2>3, OneTask, SameMatches
  <2> QED  BY <1>5, <2>1, <2>2, <2>4
<1>8. CASE WriteBytes
  <2>1. /\ KindOf(Head(left)) = "bytes" /\ source[next] \in Seq(Byte)
        /\ Put(source[next]) /\ Then(<< >>)
        /\ UNCHANGED <<capacity, bounded>>
    BY <1>8 DEF WriteBytes, Writing, NextIsArray
  <2>2. Takes(c, d, value, input, << >>, source[next])
    BY <1>1, <1>2, <2>1, KindTells DEF BytesTaken
  <2>3. PICK e \in Seq(Byte), s \in Seq(Task) : e = source[next] /\ s = << >>
    BY <1>3, <2>1
  <2> QED  BY <1>3, <1>5, <2>1, <2>2, <2>3
<1>9. CASE WriteListCount
  <2>1. /\ KindOf(Head(left)) = "list" /\ NextIsInteger
        /\ Put(ToBytes(source[next], MDesc.width))
        /\ Then(Repeated(MDesc.element, Number(source[next])))
        /\ UNCHANGED <<capacity, bounded>>
    BY <1>9 DEF WriteListCount, Writing
  <2>2. Takes(c, d, value, input, Repeated(MDesc.element, Number(source[next])),
              ToBytes(source[next], MDesc.width))
    BY <1>1, <1>2, <2>1, KindTells DEF CountTaken
  <2>3. Number(source[next]) \in Nat /\ MDesc.element \in Field
    BY <1>4, <2>1, WriteTask DEF Shape
  <2>4. PICK e \in Seq(Byte), s \in Seq(Task) :
          /\ e = ToBytes(source[next], MDesc.width)
          /\ s = Repeated(MDesc.element, Number(source[next])) /\ NoClose(s)
    BY <1>4, <2>1, <2>3, RepeatedType, CallsAreTasks, SameMatches
  <2> QED  BY <1>5, <2>1, <2>2, <2>4
<1>10. CASE WriteStruct
  <2>1. /\ KindOf(Head(left)) = "struct" /\ Then(CallsFor(MDesc.fields, FALSE, next))
        /\ UNCHANGED <<next, capacity, bounded, room, at, memory, count>>
    BY <1>10 DEF WriteStruct, Writing
  <2>2. Stays(c, d, CallsFor(MDesc.fields, Head(c.todo).flag, next))
    BY <1>1, <1>2, <2>1, KindTells DEF StructEntered
  <2>3. MDesc.fields \in Seq(Field) /\ next \in Nat \ {0} /\ Head(c.todo).flag \in BOOLEAN
        /\ Len(MDesc.fields) \in Nat
    BY <1>1, <2>1, WriteTask, TaskFacts, LenProperties DEF MDesc, Shape, MTypeOK
  <2>4. PICK s \in Seq(Task), t \in Seq(Task) :
          /\ s = CallsFor(MDesc.fields, FALSE, next)
          /\ t = CallsFor(MDesc.fields, Head(c.todo).flag, next)
          /\ Matches(s, t) /\ NoClose(s)
    BY <1>3, <2>3, CallsForType, CallsAreTasks, FieldsMatch, SameMatches
  <2>5. KindOf(Head(left)) # "close" /\ Stays(c, d, t) /\ Then(s)
    BY <2>1, <2>2, <2>4
  <2> QED  BY <2>1, <2>4, <2>5, EntersReach
<1>11. CASE WriteUnion
  <2>1. /\ KindOf(Head(left)) = "union" /\ Head(left) \in Task
        /\ UNCHANGED <<next, capacity, bounded, room, at, memory, count>>
    BY <1>11, WriteTask DEF WriteUnion, Writing
  <2>2. Head(left).at = Head(c.todo).at
    BY <1>1, <2>1, TaskFacts DEF Same
  <2>3. PICK w : /\ w = source[Head(left).at] /\ w \in DOMAIN MDesc.arms
                 /\ Stays(c, d, <<CallFor(MDesc.arms[w], FALSE, 1)>>)
    BY <1>1, <2>1, <2>2, KindTells DEF UnionEntered
  <2>4. Then(<<CallFor(MDesc.arms[w], FALSE, 1)>>)
    BY <1>11, <2>3 DEF WriteUnion
  <2>5. MDesc.arms[w] \in Field
    BY <2>1, <2>3, WriteTask, TaskFacts DEF MDesc, Shape
  <2>6. /\ CallFor(MDesc.arms[w], FALSE, 1) \in Task
        /\ CallFor(MDesc.arms[w], FALSE, 1).do # "close"
    BY <1>3, <2>5, CallForType
  <2>7. PICK s \in Seq(Task) : /\ s = <<CallFor(MDesc.arms[w], FALSE, 1)>>
                              /\ Matches(s, s) /\ NoClose(s)
    BY <2>6, OneTask, SameMatches
  <2>8. KindOf(Head(left)) # "close" /\ Stays(c, d, s) /\ Then(s)
    BY <2>1, <2>3, <2>4, <2>7
  <2> QED  BY <2>1, <2>7, <2>8, EntersReach
<1>12. CASE WriteSizedHeader
  <2>1. KindOf(Head(left)) = "sized"
    BY <1>12 DEF WriteSizedHeader, Writing
  <2>2. ~EmptyTaken(c, value)
    <3>1. \A i \in DOMAIN value : value[i] # Untouched
      <4>1. \A i \in DOMAIN value : value[i] \in Seq(Word)
        BY ElementOfSeq, LenProperties DEF MTypeOK
      <4>2. Untouched \notin Seq(Word)
        <5>1. ASSUME Untouched \in Seq(Word) PROVE FALSE
          <6>1. Untouched[1] \in Word
            BY <5>1, ElementOfSeq DEF Untouched
          <6> QED  BY <6>1 DEF Untouched, Word
        <5> QED  BY <5>1
      <4> QED  BY <4>1, <4>2
    <3> QED  BY <3>1 DEF EmptyTaken
  <2>3. HeaderTaken(c, d, value, input, length)
    BY <1>1, <2>1, <2>2, KindTells
  <2> QED  BY <1>12, <2>3, HeaderReaches
<1>13. CASE WriteSize
  <2>1. KindOf(Head(left)) = "close"
    BY <1>13 DEF WriteSize, Writing
  <2>2. SizeHeld(c, d, length)
    BY <1>1, <2>1, KindTells
  <2> QED  BY <1>13, <2>2, SizeReaches
<1> QED  BY <1>6, <1>7, <1>8, <1>9, <1>10, <1>11, <1>12, <1>13 DEF MNext
-----------------------------------------------------------------------------
(* A writing call begins at the first point of the reading call.           *)
LEMMA CallReaches ==
  ASSUME UTypeOK, NEW h, History(h, root, Here, value, input, length),
         NEW c \in Nat, NEW b \in BOOLEAN, MarshalCall(root, value, c, b),
         UNCHANGED <<input, length>>
  PROVE  \E lev : Reached(h[1], lev)'
<1>1. PICK flag \in BOOLEAN :
        h[1] = [todo |-> <<CallFor([type |-> root, flag |-> "same", selector |-> 1], flag, 1)>>,
                n |-> 0, o |-> 0]
  BY DEF History, Starts
<1> DEFINE k == CallFor([type |-> root, flag |-> "no", selector |-> 1], FALSE, 1)
           r == CallFor([type |-> root, flag |-> "same", selector |-> 1], flag, 1)
           lev == [i \in 1 .. 2 |-> 0]
<1>2. /\ left' = <<k>> /\ next' = 1 /\ capacity' = c /\ bounded' = b /\ room' = c
      /\ at' = 0 /\ memory' = << >> /\ count' = 0
  BY DEF MarshalCall
<1>3. h[1].todo = <<r>> /\ h[1].n = 0 /\ h[1].o = 0
  BY <1>1
<1>4. Same(k, r) /\ k.do = "call"
  BY DEF Same, CallFor
<1>5. lev \in [1 .. 2 -> Nat] /\ lev[1] = 0 /\ lev[2] = 0
  OBVIOUS
<1> HIDE DEF k, r, lev
<1>6. PICK s, t : s = <<k>> /\ t = <<r>>
  OBVIOUS
<1>7. Len(s) = 1 /\ Len(t) = 1 /\ s[1] = k /\ t[1] = r
  BY <1>6
<1>8. \A i \in 1 .. Len(s) : i = 1 /\ s[i].do # "close"
  BY <1>4, <1>7
<1>9. Matches(s, t)
  BY <1>4, <1>7, <1>8 DEF Matches
<1>10. Levels(s, lev)
  <2>1. lev \in [1 .. Len(s) + 1 -> Nat] /\ lev[Len(s) + 1] = 0 /\ 1 + 1 = 2
    BY <1>5, <1>7
  <2>2. \A i \in 1 .. Len(s) : lev[i] = IF s[i].do = "close" THEN lev[i + 1] + 1 ELSE lev[i + 1]
    BY <1>5, <1>8, <2>1
  <2> QED  BY <2>1, <2>2 DEF Levels
<1>11. Follow(s, t, lev, input, length) /\ Nested(s, t, length) /\ Skipped(s) = {}
  BY <1>8, <1>9, <1>10, SkippedFirst DEF Follow, Nested, NoClose
<1>12. left' = s /\ h[1].todo = t
  BY <1>2, <1>3, <1>6
<1>13. Charges(h[1], lev[1])'
  <2>1. count' = CountAt(0, 0)
    BY <1>2 DEF CountAt
  <2>2. room' = capacity' - (0 - 2 * 0)
    BY <1>2
  <2> QED  BY <1>3, <1>5, <2>1, <2>2 DEF Charges
<1>14. Copies'
  BY <1>2 DEF Copies
<1>15. Complete(h[1])'
  <2>1. 1 .. 0 = {} /\ DOMAIN memory' = {}
    BY <1>2
  <2> QED  BY <1>2, <1>3, <1>11, <1>12, <2>1 DEF Complete
<1>16. Fits'
  BY <1>2 DEF Fits
<1>17. next' = h[1].n + 1
  BY <1>2, <1>3
<1> QED  BY <1>11, <1>12, <1>13, <1>14, <1>15, <1>16, <1>17 DEF Reached

(* What was read stays what it is while nothing is read.                   *)
LEMMA HistoryStays ==
  ASSUME UNCHANGED uvars
  PROVE  /\ ReadInv => ReadInv'
         /\ \A h : History(h, root, Here, value, input, length)
                     <=> History(h, root', Here', value', input', length')
<1>1. /\ root' = root /\ length' = length /\ todo' = todo /\ input' = input
      /\ value' = value /\ rc' = rc
  BY DEF uvars
<1>2. Here' = Here
  BY <1>1 DEF Here
<1>3. \A h : History(h, root, Here, value, input, length)
               <=> History(h, root', Here', value', input', length')
  BY <1>1, <1>2
<1> QED  BY <1>1, <1>3 DEF ReadInv, ReadIsExplained

(* A writing call goes on to the next point of the reading call.           *)
LEMMA WritesBackStep ==
  ASSUME UTypeOK, MTypeOK, ClosesBehind, WritesBack, Writes
  PROVE  WritesBack'
<1>1. phase = "writing" /\ MNext /\ UNCHANGED uvars /\ UNCHANGED <<input, length>>
  BY DEF Writes, uvars
<1>2. todo = << >> /\ rc = "TPM_RC_SUCCESS" /\ source = value
  BY <1>1 DEF WritesBack
<1>3. PICK h, k, lev : /\ History(h, root, Here, value, input, length)
                       /\ k \in 1 .. Len(h) /\ Reached(h[k], lev)
  BY <1>1 DEF WritesBack
<1>4. left # << >> /\ source' = source
  <2>1. \A kind : Writing(kind) => left # << >>
    BY DEF Writing
  <2>2. /\ WriteInteger \/ WriteBufferSize \/ WriteBytes \/ WriteListCount => source' = source
        /\ WriteInteger \/ WriteBufferSize \/ WriteBytes \/ WriteListCount => left # << >>
    BY <2>1, Zenon DEF WriteInteger, WriteBufferSize, WriteBytes, WriteListCount
  <2>3. WriteStruct \/ WriteUnion => left # << >> /\ source' = source
    BY <2>1, Zenon DEF WriteStruct, WriteUnion
  <2>4. WriteSizedHeader => left # << >> /\ source' = source
    BY <2>1, Zenon DEF WriteSizedHeader
  <2>5. WriteSize => left # << >> /\ source' = source
    BY <2>1 DEF WriteSize
  <2> QED  BY <1>1, <2>2, <2>3, <2>4, <2>5 DEF MNext
<1>5. h[k] \in Point
  BY <1>3, ElementOfSeq DEF History
<1>6. h[k].todo # << >>
  BY <1>3, <1>4, <1>5, SameTask
<1>7. /\ k + 1 \in 1 .. Len(h) /\ h[k + 1] \in Point
      /\ Follows(h[k], h[k + 1], value, input, length)
  BY <1>2, <1>3, <1>6, NextPoint
<1>8. PICK c \in Point, d \in Point : c = h[k] /\ d = h[k + 1]
  BY <1>5, <1>7
<1>9. \E l : Reached(d, l)'
  <2>1. Reached(c, lev) /\ Follows(c, d, value, input, length)
    BY <1>3, <1>7, <1>8
  <2> QED  BY <1>1, <1>2, <1>4, <2>1, WriteReaches
<1>10. History(h, root', Here', value', input', length')
  BY <1>1, <1>3, HistoryStays
<1>11. todo' = << >> /\ rc' = "TPM_RC_SUCCESS" /\ source' = value'
  BY <1>1, <1>2, <1>4 DEF uvars
<1>12. \E l : Reached(h[k + 1], l)'
  BY <1>8, <1>9
<1> QED  BY <1>7, <1>10, <1>11, <1>12 DEF WritesBack
(* The invariant holds before a call.                                      *)
LEMMA RoundTripInit == Init => RoundTripInv
<1> SUFFICES ASSUME Init PROVE RoundTripInv
  OBVIOUS
<1>1. WritesBack
  BY DEF Init, WritesBack
<1> QED  BY <1>1, MarshalInvInit, ReadInvInit DEF RoundTripInv

(* Every step of a reading or a writing call keeps it.                     *)
LEMMA RoundTripStep == RoundTripInv /\ [Next]_vars => RoundTripInv'
<1> SUFFICES ASSUME RoundTripInv, [Next]_vars PROVE RoundTripInv'
  OBVIOUS
<1>1. MarshalInv /\ ReadInv /\ WritesBack
  BY DEF RoundTripInv
<1>2. MarshalInv'
  BY <1>1, MarshalInvStep
<1>3. /\ UTypeOK /\ MTypeOK /\ ReadsStayInside /\ ClosesBehind
      /\ UTypeOK'
  BY <1>1, <1>2 DEF MarshalInv, TypeOK, WriteInv
<1>4. ASSUME UNCHANGED <<uvars, mvars, phase>> PROVE RoundTripInv'
  <2>1. UNCHANGED uvars /\ phase' = phase
    BY <1>4
  <2>2. ReadInv'
    BY <1>1, <2>1, HistoryStays
  <2>3. WritesBack'
    <3> SUFFICES ASSUME phase = "writing"
                 PROVE  WritesBack'
      BY <2>1 DEF WritesBack
    <3>1. todo' = << >> /\ rc' = "TPM_RC_SUCCESS" /\ source' = value'
      BY <1>1, <1>4 DEF WritesBack, uvars, mvars
    <3>2. PICK h, k, lev : /\ History(h, root, Here, value, input, length)
                           /\ k \in 1 .. Len(h) /\ Reached(h[k], lev)
      BY <1>1 DEF WritesBack
    <3>3. History(h, root', Here', value', input', length')
      BY <2>1, <3>2, HistoryStays
    <3>4. Reached(h[k], lev)'
      BY <1>4, <3>2 DEF Reached, Charges, Copies, Fits, Complete, Lacks, uvars, mvars
    <3> QED  BY <3>1, <3>2, <3>3, <3>4 DEF WritesBack
  <2> QED  BY <1>2, <2>2, <2>3 DEF RoundTripInv
<1>5. CASE Reading
  <2>1. ReadInv'
    BY <1>1, <1>3, <1>5, ReadInvStep DEF Reading
  <2>2. WritesBack'
    BY <1>5 DEF Reading, WritesBack
  <2> QED  BY <1>2, <2>1, <2>2 DEF RoundTripInv
<1>6. CASE Again
  <2>1. Accepted /\ UNCHANGED uvars /\ phase' = "writing"
    BY <1>6 DEF Again
  <2>2. ReadInv'
    BY <1>1, <2>1, HistoryStays
  <2>3. PICK c \in Nat, b \in BOOLEAN : MarshalCall(root, value, c, b)
    <3>1. Len(input) \in Nat
      BY <1>3, LenProperties DEF UTypeOK
    <3>2. \A d \in Slack : Len(input) + d >= 0 => Len(input) + d \in Nat
      BY <3>1, SlackAssumption
    <3> QED  BY <1>6, <3>2 DEF Again
  <2>4. todo' = << >> /\ rc' = "TPM_RC_SUCCESS" /\ source' = value'
    BY <2>1, <2>3 DEF Accepted, UDone, MarshalCall, uvars
  <2>5. PICK h : History(h, root, Here, value, input, length)
    BY <1>1, <2>1 DEF ReadInv, ReadIsExplained, Accepted
  <2>6. History(h, root', Here', value', input', length')
    BY <2>1, <2>5, HistoryStays
  <2>7. \E lev : Reached(h[1], lev)'
    <3>1. UNCHANGED <<input, length>>
      BY <2>1 DEF uvars
    <3> QED  BY <1>3, <2>3, <2>5, <3>1, CallReaches
  <2>8. 1 \in 1 .. Len(h)
    <3>1. h \in Seq(Point) /\ h # << >>
      BY <2>5 DEF History
    <3>2. Len(h) \in Nat /\ Len(h) # 0
      BY <3>1, LenProperties, EmptySeq
    <3> QED  BY <3>2
  <2>9. WritesBack'
    BY <2>4, <2>6, <2>7, <2>8 DEF WritesBack
  <2> QED  BY <1>2, <2>2, <2>9 DEF RoundTripInv
<1>7. CASE Writes
  <2>1. ReadInv'
    BY <1>1, <1>7, HistoryStays DEF Writes
  <2>2. WritesBack'
    BY <1>1, <1>3, <1>7, WritesBackStep
  <2> QED  BY <1>2, <2>1, <2>2 DEF RoundTripInv
<1>8. CASE Finished
  BY <1>4, <1>8 DEF Finished, vars
<1>9. CASE UNCHANGED vars
  BY <1>4, <1>9 DEF vars
<1> QED  BY <1>5, <1>6, <1>7, <1>8, <1>9 DEF Next

(* Whatever the types, a writing call retraces the reading call.           *)
THEOREM RoundTripInvariance == Spec => []RoundTripInv
BY RoundTripInit, RoundTripStep, PTL DEF Spec

(* Whatever the types and the bytes offered, a type has one encoding: an   *)
(* accepted structure is marshaled to the bytes it came from, the sizes    *)
(* the marshal functions compute included, whatever the room.              *)
THEOREM EncodingIsOne == Spec => []OneEncoding
<1>1. RoundTripInv => OneEncoding
  <2> SUFFICES ASSUME RoundTripInv, phase = "writing", NEW p \in DOMAIN memory
               PROVE  p <= Len(input) /\ memory[p] = input[p]
    BY DEF OneEncoding
  <2>1. Copies
    BY DEF RoundTripInv, WritesBack, Reached
  <2>2. p \in DOMAIN input /\ memory[p] = input[p]
    BY <2>1 DEF Copies
  <2>3. input \in Seq(Byte)
    BY DEF RoundTripInv, MarshalInv, TypeOK, UTypeOK
  <2> QED  BY <2>2, <2>3, LenProperties
<1> QED  BY <1>1, RoundTripInvariance, PTL

(* The last point of a reading call is reached when nothing is left.       *)
LEMMA LastPoint ==
  ASSUME NEW h, NEW k \in 1 .. Len(h), NEW lev, MTypeOK,
         History(h, root, Here, value, input, length),
         Reached(h[k], lev), left = << >>
  PROVE  h[k] = Here /\ lev[1] = 0
<1>1. h \in Seq(Point) /\ h[Len(h)] = Here /\ Chain(h, value, input, length)
  BY DEF History
<1>2. h[k] \in Point
  BY <1>1, ElementOfSeq
<1>3. Len(left) = 0 /\ Len(h[k].todo) = 0 /\ lev[0 + 1] = 0
  BY DEF Reached, Follow, Matches, Levels
<1>4. h[k].todo = << >>
  BY <1>2, <1>3, PointFacts, EmptySeq
<1>5. ASSUME k # Len(h) PROVE FALSE
  <2>1. k \in 1 .. Len(h) - 1
    BY <1>1, <1>5, LenProperties
  <2> QED  BY <1>1, <1>4, <2>1 DEF Chain, Follows
<1> QED  BY <1>1, <1>3, <1>5

(* Of buffers a UINT16 can tell the size of: the size returned is that of  *)
(* the structure whatever the room, *size is the room less it, and whether *)
(* that is negative tells whether every byte was written.                  *)
THEOREM RoomIsTold ==
  ASSUME \A l \in Lengths : l < 65536
  PROVE  Spec => []RoomTells
<1>1. RoundTripInv => RoomTells
  <2> SUFFICES ASSUME RoundTripInv, phase = "writing", MDone
               PROVE  /\ count = Len(input)
                      /\ bounded => room = capacity - count
                      /\ ~bounded \/ room >= 0 <=> DOMAIN memory = 1 .. count
    BY DEF RoomTells, Written
  <2>1. /\ UTypeOK /\ MTypeOK /\ ReadsStayInside /\ ReadInv /\ WritesBack
    BY DEF RoundTripInv, MarshalInv, TypeOK
  <2>2. left = << >>
    BY DEF MDone
  <2>3. PICK h, k, lev : /\ History(h, root, Here, value, input, length)
                         /\ k \in 1 .. Len(h) /\ Reached(h[k], lev)
    <3>1. WritesBack /\ phase = "writing"
      BY <2>1
    <3> QED  BY ONLY <3>1 DEF WritesBack
  <2>4. h[k] = Here /\ lev[1] = 0
    BY <2>1, <2>2, <2>3, LastPoint
  <2>5. Reached(Here, lev) /\ Here.o = Len(input)
    BY <2>3, <2>4 DEF Here
  <2>6. Len(input) \in Nat /\ Len(input) < 65536
    <3>1. Len(input) \in Nat /\ length \in Nat /\ length < 65536 /\ Len(input) <= length
      BY <2>1, LenProperties DEF UTypeOK, ReadsStayInside, ReadInv
    <3> QED  BY <3>1
  <2>7. Len(input) - 2 * 0 = Len(input)
    BY <2>6
  <2>8. count = Len(input) /\ (bounded => room = capacity - Len(input))
    <3>1. count = CountAt(Len(input), 0) /\ (bounded => room = capacity - (Len(input) - 2 * 0))
      BY <2>4, <2>5 DEF Reached, Charges
    <3>2. CountAt(Len(input), 0) = Len(input)
      <4> DEFINE n == Len(input)
      <4>2. n \in Nat /\ n < 65536
        BY <2>6
      <4> HIDE DEF n
      <4>3. n - 2 * 0 = n
        BY <4>2
      <4>4. (n - 2 * 0) % 65536 = n
        BY <4>2, <4>3, CutNothing
      <4> QED  BY <4>4 DEF CountAt, n
    <3> QED  BY <2>7, <3>1, <3>2
  <2>9. Fits <=> DOMAIN memory = 1 .. count
    <3>1. ASSUME Fits PROVE DOMAIN memory = 1 .. count
      <4>1. at = Here.o /\ DOMAIN memory = (1 .. at) \ Skipped(left)
        BY <2>5, <3>1 DEF Reached, Complete
      <4>2. Skipped(left) = {}
        <5>1. NoClose(left)
          BY <2>2 DEF NoClose
        <5> QED  BY <5>1, SkippedFirst
      <4> QED  BY <2>5, <2>8, <4>1, <4>2
    <3>2. ASSUME ~Fits PROVE DOMAIN memory # 1 .. count
      BY <2>5, <2>8, <3>2 DEF Reached, Lacks
    <3> QED  BY <3>1, <3>2
  <2> QED  BY <2>8, <2>9 DEF Fits
<1> QED  BY <1>1, RoundTripInvariance, PTL
=============================================================================

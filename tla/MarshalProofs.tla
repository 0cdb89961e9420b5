--------------------------- MODULE MarshalProofs ----------------------------
(***************************************************************************)
(* For every set of types: what is read stays inside the buffer, and what  *)
(* is written inside the room, size fields not yet charged apart.          *)
(***************************************************************************)
EXTENDS MarshalRoundTrip, SequenceTheorems, TLAPS

(* A function on 1..n is a sequence.                                       *)
LEMMA FunctionIsSeq ==
  ASSUME NEW S, NEW n \in Nat, NEW f \in [1 .. n -> S]
  PROVE  f \in Seq(S) /\ Len(f) = n
<1>1. f \in Seq(S)
  BY SeqDef, Zenon
<1>2. DOMAIN f = 1 .. n /\ DOMAIN f = 1 .. Len(f) /\ Len(f) \in Nat
  BY <1>1, LenProperties
<1> QED  BY <1>1, <1>2

(* A byte is a word, and a word a natural number.                         *)
LEMMA BytesAreWords == Byte \subseteq Word
<1>1. \A x \in Byte : x \in Word
  BY DEF Byte, Word
<1> QED  BY <1>1

(* Two bytes make a word.                                                  *)
LEMMA WordOfTwo == \A x, y \in Byte : 256 * x + y \in Word
BY SMTT(60) DEF Byte, Word

(* A word is a natural number.                                             *)
LEMMA WordsAreNat == \A w \in Word : w \in Nat
BY DEF Word

(* The words of an integer are words, and there is at least one.           *)
LEMMA FromBytesType ==
  ASSUME NEW b \in Seq(Byte), Len(b) \in {1, 2, 4, 8}
  PROVE  FromBytes(b) \in Seq(Word) /\ Len(FromBytes(b)) >= 1
<1>1. CASE Len(b) = 1
  BY <1>1, BytesAreWords, SeqMonotonic DEF FromBytes
<1>2. CASE Len(b) # 1
  <2>1. PICK n \in {1, 2, 4} : Len(b) = 2 * n
    BY <1>2
  <2>2. Len(b) \div 2 = n
    BY <2>1
  <2>3. \A i \in 1 .. n : b[2 * i - 1] \in Byte /\ b[2 * i] \in Byte
    BY <2>1, ElementOfSeq
  <2> DEFINE f == [i \in 1 .. n |-> 256 * b[2 * i - 1] + b[2 * i]]
  <2>4. f \in [1 .. n -> Word]
    <3>1. \A i \in 1 .. n : 256 * b[2 * i - 1] + b[2 * i] \in Word
      BY <2>3, WordOfTwo, Zenon
    <3> QED  BY <3>1
  <2>5. f \in Seq(Word) /\ Len(f) = n
    BY <2>4, FunctionIsSeq
  <2>6. FromBytes(b) = f
    BY <1>2, <2>2 DEF FromBytes
  <2> QED  BY <2>5, <2>6
<1> QED  BY <1>1, <1>2

(* A size or a count is a natural number.                                  *)
LEMMA NumberType ==
  ASSUME NEW v \in Seq(Word), Len(v) >= 1
  PROVE  Number(v) \in Nat
<1>1. \A i \in 1 .. Len(v) : v[i] \in Nat
  BY WordsAreNat, ElementOfSeq
<1>2. Len(v) \in Nat
  BY LenProperties
<1>3. \A x, y \in Nat : 65536 * x + y \in Nat
  OBVIOUS
<1>4. CASE Len(v) = 1
  BY <1>1, <1>4 DEF Number
<1>5. CASE Len(v) # 1
  <2> DEFINE n == Len(v)
  <2>0. n \in Nat /\ n >= 1 /\ n # 1
    BY <1>2, <1>5
  <2> HIDE DEF n
  <2>1. 1 \in 1 .. n /\ 2 \in 1 .. n
    BY <2>0
  <2> USE DEF n
  <2>2. v[1] \in Nat /\ v[2] \in Nat
    BY <1>1, <2>1
  <2> QED  BY <1>3, <1>5, <2>2 DEF Number
<1> QED  BY <1>4, <1>5

(* The contents of an array are bytes.                                     *)
LEMMA ContentsType ==
  ASSUME NEW n \in Nat
  PROVE  /\ Contents(n) \in Seq(Byte) /\ Len(Contents(n)) = n
         /\ Contents(n) \in Seq(Word)
<1>1. Contents(n) \in [1 .. n -> Byte]
  BY DEF Contents, Byte
<1> QED  BY <1>1, BytesAreWords, FunctionIsSeq, SeqMonotonic

(* The calls a type expands to are tasks, and none ends a sized structure. *)
LEMMA CallForType ==
  ASSUME NEW f \in Field, NEW flag \in BOOLEAN, NEW base \in Nat \ {0}
  PROVE  CallFor(f, flag, base) \in Task /\ CallFor(f, flag, base).do = "call"
<1>1. f.type \in Types /\ f.selector \in Nat
  BY DEF Field
<1>2. base + f.selector - 1 \in Nat
  BY <1>1
<1>3. (IF f.flag = "same" THEN flag ELSE f.flag = "yes") \in BOOLEAN
  OBVIOUS
<1> QED  BY <1>1, <1>2, <1>3 DEF CallFor, Task

(* The calls of a structure's fields are calls.                            *)
LEMMA CallsForType ==
  ASSUME NEW fields \in Seq(Field), NEW flag \in BOOLEAN, NEW base \in Nat \ {0}
  PROVE  CallsFor(fields, flag, base) \in Seq({k \in Task : k.do = "call"})
<1>1. \A i \in 1 .. Len(fields) : fields[i] \in Field
  BY ElementOfSeq
<1>2. CallsFor(fields, flag, base) \in [1 .. Len(fields) -> {k \in Task : k.do = "call"}]
  <2>1. \A i \in 1 .. Len(fields) :
          CallFor(fields[i], flag, base) \in {k \in Task : k.do = "call"}
    BY <1>1, CallForType
  <2> QED  BY <2>1 DEF CallsFor
<1> QED  BY <1>2, LenProperties, FunctionIsSeq

(* The calls of a list's elements are calls.                               *)
LEMMA RepeatedType ==
  ASSUME NEW f \in Field, NEW n \in Nat
  PROVE  Repeated(f, n) \in Seq({k \in Task : k.do = "call"})
<1>1. Repeated(f, n) \in [1 .. n -> {k \in Task : k.do = "call"}]
  <2>1. CallFor(f, FALSE, 1) \in {k \in Task : k.do = "call"}
    <3>1. FALSE \in BOOLEAN /\ 1 \in Nat \ {0}
      OBVIOUS
    <3> QED  BY <3>1, CallForType
  <2> QED  BY <2>1 DEF Repeated
<1> QED  BY <1>1, FunctionIsSeq

(* A sequence of calls is a sequence of tasks.                             *)
LEMMA CallsAreTasks == \A s \in Seq({k \in Task : k.do = "call"}) : s \in Seq(Task)
<1>1. {k \in Task : k.do = "call"} \subseteq Task
  OBVIOUS
<1> QED  BY <1>1, SeqMonotonic

(* A task alone is a sequence of tasks.                                    *)
LEMMA OneTask == \A k \in Task : <<k>> \in Seq(Task)
OBVIOUS

(* The bytes of a buffer are a task.                                       *)
LEMMA ArrayOfType ==
  ASSUME NEW t \in Types, NEW n \in Nat
  PROVE  ArrayOf(t, n) \in Task /\ ArrayOf(t, n).do = "bytes"
BY DEF ArrayOf, Task

(* The end of a sized structure is a task.                                 *)
LEMMA CloseOfType ==
  ASSUME NEW t \in Types, NEW n \in Nat, NEW o \in Nat
  PROVE  /\ CloseOf(t, n, o) \in Task
         /\ CloseOf(t, n, o).do = "close" /\ CloseOf(t, n, o).at = o
BY DEF CloseOf, Task

(* A task has a type, and an array a number of bytes.                      *)
LEMMA TaskFacts ==
  ASSUME NEW k \in Task
  PROVE  /\ k.type \in Types /\ Shape(Schema[k.type])
         /\ k.flag \in BOOLEAN /\ k.n \in Nat /\ k.at \in Nat
         /\ KindOf(k) = "bytes" => CountOf(k) \in Nat
         /\ KindOf(k) \notin {"bytes", "close"} => k.do = "call" /\ KindOf(k) = Schema[k.type].kind
         /\ KindOf(k) = "close" => k.do = "close"
<1>1. k.type \in Types /\ k.do \in {"call", "bytes", "close"}
  BY DEF Task
<1>2. Shape(Schema[k.type])
  BY <1>1, SchemaAssumption
<1>3. Schema[k.type].kind # "close"
  BY <1>2 DEF Shape
<1> QED  BY <1>1, <1>2, <1>3 DEF Task, KindOf, CountOf, Shape

-----------------------------------------------------------------------------
(* Calls put in front of the remaining tasks are tasks again.              *)
LEMMA ThenType ==
  ASSUME NEW s \in Seq(Task), s # << >>, NEW calls \in Seq(Task)
  PROVE  Head(s) \in Task /\ Tail(s) \in Seq(Task) /\ calls \o Tail(s) \in Seq(Task)
BY HeadTailProperties, ConcatProperties

(* While there is something to do, no read has failed.                     *)
LEMMA StillReading ==
  ASSUME UTypeOK, ReadsStayInside, todo # << >>
  PROVE  size >= 0 /\ Len(input) + size = length /\ Len(input) \in Nat
BY LenProperties DEF UTypeOK, ReadsStayInside, UDone

(* The task at hand.                                                       *)
LEMMA HeadTask ==
  ASSUME UTypeOK, todo # << >>
  PROVE  /\ Head(todo) \in Task /\ Head(todo).type \in Types /\ Shape(Desc)
         /\ Head(todo).flag \in BOOLEAN /\ Head(todo).n \in Nat
BY ThenType, TaskFacts, EmptySeq DEF UTypeOK, Desc

(* What is read from the buffer, n bytes of it, is charged to *size.       *)
LEMMA Charged ==
  ASSUME UTypeOK, ReadsStayInside, todo # << >>,
         NEW n \in Nat, size - n >= 0, size' = size - n, length' = length,
         Len(input') = Len(input) + n
  PROVE  ReadsStayInside'
BY StillReading DEF UTypeOK, ReadsStayInside

(* An integer, the size of a buffer or of a structure, the count of a list *)
(* as they are found in the buffer.                                        *)
LEMMA FetchFacts ==
  ASSUME UTypeOK, todo # << >>, NEW b \in Offered[root][Head(todo).type],
         KindOf(Head(todo)) \in {"integer", "buffer", "list", "sized"}
  PROVE  /\ Desc.kind = KindOf(Head(todo)) /\ Desc.width \in Nat
         /\ input \o b \in Seq(Byte) /\ Len(input \o b) = Len(input) + Desc.width
         /\ FromBytes(b) \in Value
         /\ Append(value, FromBytes(b)) \in Seq(Value)
         /\ Number(FromBytes(b)) \in Nat
<1>1. Desc.kind = KindOf(Head(todo)) /\ Desc.width \in {1, 2, 4, 8}
  BY HeadTask, TaskFacts DEF Desc, Shape
<1>2. b \in Seq(Byte) /\ Len(b) = Desc.width
  BY <1>1, HeadTask, OfferedAssumption DEF Desc, UTypeOK
<1>3. FromBytes(b) \in Seq(Word) /\ Number(FromBytes(b)) \in Nat
  BY <1>1, <1>2, FromBytesType, NumberType
<1>4. input \o b \in Seq(Byte) /\ Len(input \o b) = Len(input) + Desc.width
  <2>1. input \in Seq(Byte)
    BY DEF UTypeOK
  <2> QED  BY <1>2, <2>1, ConcatProperties
<1>5. FromBytes(b) \in Value
  BY <1>3 DEF Value
<1>6. Append(value, FromBytes(b)) \in Seq(Value)
  BY <1>5 DEF UTypeOK
<1> QED  BY <1>1, <1>3, <1>4, <1>5, <1>6

(* What is called next are tasks; a failed check returns its code.         *)
LEMMA ContinueType ==
  ASSUME UTypeOK, todo # << >>, NEW calls \in Seq(Task), Continue(calls)
  PROVE  todo' \in Seq(Task) /\ rc' = rc
BY ThenType DEF UTypeOK, Continue

(* A call that fails leaves nothing to do, and returns a result.           *)
LEMMA FailType ==
  ASSUME UTypeOK, todo # << >>, NEW code, Fail(code),
         \/ code \in {"TPM_RC_INSUFFICIENT", "TPM_RC_SELECTOR", "TPM_RC_SIZE"}
         \/ code = Desc.code /\ Desc.kind \in {"integer", "buffer", "list"}
  PROVE  todo' \in Seq(Task) /\ rc' \in Results
<1>1. todo' \in Seq(Task) /\ rc' = code
  BY EmptySeq DEF Fail
<1>2. Head(todo).type \in Types
  BY HeadTask
<1> QED  BY <1>1, <1>2 DEF Desc, Results

(* One step of an unmarshal function.                                      *)
LEMMA ReadStep ==
  ASSUME UTypeOK, ReadsStayInside, UNext
  PROVE  UTypeOK' /\ ReadsStayInside'
<1>a. << >> \in Seq(Task)
  BY EmptySeq
<1>b. ASSUME todo # << >>, KindOf(Head(todo)) \in {"integer", "buffer", "list", "sized"},
             NEW b \in Offered[root][Head(todo).type],
             size - Desc.width >= 0, size' = size - Desc.width, input' = input \o b,
             UNCHANGED <<root, length>>,
             value' \in Seq(Value), todo' \in Seq(Task), rc' \in Results
      PROVE  UTypeOK' /\ ReadsStayInside'
  <2>1. /\ Desc.width \in Nat
        /\ input' \in Seq(Byte) /\ Len(input') = Len(input) + Desc.width
    BY <1>b, FetchFacts
  <2>2. size \in Int /\ length \in Nat /\ root \in Types
    BY DEF UTypeOK
  <2>3. ReadsStayInside'
    BY <1>b, <2>1, Charged
  <2> QED  BY <1>b, <2>1, <2>2, <2>3 DEF UTypeOK
<1>c. ASSUME UNCHANGED <<root, length, size, input, value>>, todo # << >>,
             todo' \in Seq(Task), rc' \in Results
      PROVE  UTypeOK' /\ ReadsStayInside'
  BY <1>c, StillReading DEF UTypeOK, ReadsStayInside
<1>d. rc \in Results
  BY DEF UTypeOK
<1>1. CASE TooShort
  <2>1. /\ size' = size - Desc.width /\ size' < 0
        /\ todo' = << >> /\ rc' = "TPM_RC_INSUFFICIENT"
        /\ UNCHANGED <<root, length, input, value>>
    BY <1>1 DEF TooShort, Fail
  <2>2. size' \in Int
    <3>1. todo # << >> /\ Desc.width \in Nat
      BY <1>1, HeadTask, TaskFacts DEF TooShort, Desc, Shape
    <3> QED  BY <2>1, <3>1 DEF UTypeOK
  <2> QED  BY <2>1, <2>2, <1>a DEF UTypeOK, ReadsStayInside, UDone, Results
<1>2. CASE ReadInteger
  <2>1. todo # << >> /\ KindOf(Head(todo)) = "integer"
    BY <1>2 DEF ReadInteger, Doing
  <2>2. PICK b \in Offered[root][Head(todo).type] :
          /\ Fetch(b)
          /\ Continue(<< >>) \/ Fail(Desc.code)
    BY <1>2 DEF ReadInteger
  <2>3. Desc.kind = "integer" /\ value' \in Seq(Value)
    BY <2>1, <2>2, FetchFacts DEF Fetch
  <2>4. todo' \in Seq(Task) /\ rc' \in Results
    BY <1>a, <1>d, <2>1, <2>2, <2>3, ContinueType, FailType
  <2> QED  BY <2>1, <2>2, <2>3, <2>4, <1>b DEF Fetch
<1>3. CASE ReadBufferSize
  <2>1. todo # << >> /\ KindOf(Head(todo)) = "buffer"
    BY <1>3 DEF ReadBufferSize, Doing
  <2>2. PICK b \in Offered[root][Head(todo).type] :
          /\ Fetch(b)
          /\ \/ Continue(<<ArrayOf(Head(todo).type, Number(FromBytes(b)))>>)
             \/ Fail(Desc.code)
    BY <1>3 DEF ReadBufferSize
  <2>3. /\ Desc.kind = "buffer" /\ value' \in Seq(Value)
        /\ <<ArrayOf(Head(todo).type, Number(FromBytes(b)))>> \in Seq(Task)
    BY <2>1, <2>2, FetchFacts, HeadTask, ArrayOfType DEF Fetch
  <2>4. todo' \in Seq(Task) /\ rc' \in Results
    BY <1>d, <2>1, <2>2, <2>3, ContinueType, FailType
  <2> QED  BY <2>1, <2>2, <2>3, <2>4, <1>b DEF Fetch
<1>4. CASE ReadBytes
  <2>1. todo # << >> /\ KindOf(Head(todo)) = "bytes"
    BY <1>4 DEF ReadBytes, Doing
  <2> DEFINE n == CountOf(Head(todo))
  <2>2. n \in Nat
    BY <2>1, HeadTask, TaskFacts
  <2>3. CASE size < n
    <3>1. Fail("TPM_RC_INSUFFICIENT") /\ UNCHANGED <<root, length, size, input, value>>
      BY <1>4, <2>3 DEF ReadBytes
    <3> QED  BY <2>1, <3>1, <1>c, FailType
  <2>4. CASE ~(size < n)
    <3>1. /\ size' = size - n /\ input' = input \o Contents(n)
          /\ value' = Append(value, Contents(n))
          /\ Continue(<< >>) /\ UNCHANGED <<root, length>>
      BY <1>4, <2>4 DEF ReadBytes
    <3>2. todo' \in Seq(Task) /\ rc' \in Results
      BY <1>a, <1>d, <2>1, <3>1, ContinueType
    <3>3. size \in Int /\ length \in Nat /\ root \in Types
          /\ input \in Seq(Byte) /\ value \in Seq(Value)
      BY DEF UTypeOK
    <3>4. /\ Contents(n) \in Seq(Byte) /\ Contents(n) \in Value /\ Len(Contents(n)) = n
      BY <2>2, ContentsType DEF Value
    <3> HIDE DEF n
    <3>5. input' \in Seq(Byte) /\ Len(input') = Len(input) + n /\ value' \in Seq(Value)
      <4>1. /\ input \o Contents(n) \in Seq(Byte)
            /\ Len(input \o Contents(n)) = Len(input) + n
        BY <3>3, <3>4, ConcatProperties
      <4>2. value' \in Seq(Value)
        BY <3>1, <3>3, <3>4
      <4> QED  BY <3>1, <4>1, <4>2
    <3>6. ReadsStayInside'
      BY <2>1, <2>2, <2>4, <3>1, <3>3, <3>5, Charged
    <3> QED  BY <2>2, <3>1, <3>2, <3>3, <3>5, <3>6 DEF UTypeOK
  <2> QED  BY <2>3, <2>4
<1>5. CASE ReadListCount
  <2>1. todo # << >> /\ KindOf(Head(todo)) = "list"
    BY <1>5 DEF ReadListCount, Doing
  <2>2. PICK b \in Offered[root][Head(todo).type] :
          /\ Fetch(b)
          /\ \/ Continue(Repeated(Desc.element, Number(FromBytes(b))))
             \/ Fail(Desc.code)
    BY <1>5 DEF ReadListCount
  <2>3. /\ Desc.kind = "list" /\ value' \in Seq(Value)
        /\ Number(FromBytes(b)) \in Nat /\ Desc.element \in Field
    BY <2>1, <2>2, FetchFacts, HeadTask DEF Fetch, Shape
  <2>4. Repeated(Desc.element, Number(FromBytes(b))) \in Seq(Task)
    BY <2>3, RepeatedType, CallsAreTasks
  <2>5. todo' \in Seq(Task) /\ rc' \in Results
    BY <1>d, <2>1, <2>2, <2>3, <2>4, ContinueType, FailType
  <2> QED  BY <2>1, <2>2, <2>3, <2>5, <1>b DEF Fetch
<1>6. CASE ReadStruct
  <2>1. todo # << >> /\ KindOf(Head(todo)) = "struct"
    BY <1>6 DEF ReadStruct, Doing
  <2>2. Desc.fields \in Seq(Field) /\ Head(todo).flag \in BOOLEAN
    BY <2>1, HeadTask, TaskFacts DEF Desc, Shape
  <2>3. Len(value) + 1 \in Nat \ {0}
    BY LenProperties DEF UTypeOK
  <2>4. CallsFor(Desc.fields, Head(todo).flag, Len(value) + 1) \in Seq(Task)
    BY <2>2, <2>3, CallsForType, CallsAreTasks
  <2>5. todo' \in Seq(Task) /\ rc' \in Results
    BY <1>6, <1>d, <2>1, <2>4, ContinueType DEF ReadStruct
  <2> QED  BY <1>6, <2>1, <2>5, <1>c DEF ReadStruct
<1>7. CASE ReadUnion
  <2>1. todo # << >> /\ KindOf(Head(todo)) = "union"
    BY <1>7 DEF ReadUnion, Doing
  <2>2. ASSUME NEW w \in DOMAIN Desc.arms
        PROVE  <<CallFor(Desc.arms[w], FALSE, 1)>> \in Seq(Task)
    <3>1. Desc.arms[w] \in Field
      BY <2>1, HeadTask, TaskFacts DEF Desc, Shape
    <3>2. FALSE \in BOOLEAN /\ 1 \in Nat \ {0}
      OBVIOUS
    <3>3. CallFor(Desc.arms[w], FALSE, 1) \in Task
      BY <3>1, <3>2, CallForType
    <3> QED  BY <3>3, OneTask
  <2>3. \/ \E w \in DOMAIN Desc.arms : Continue(<<CallFor(Desc.arms[w], FALSE, 1)>>)
        \/ Fail("TPM_RC_SELECTOR")
    BY <1>7 DEF ReadUnion
  <2>4. todo' \in Seq(Task) /\ rc' \in Results
    BY <1>d, <2>1, <2>2, <2>3, ContinueType, FailType
  <2> QED  BY <1>7, <2>1, <2>4, <1>c DEF ReadUnion
<1>8. CASE ReadSizedHeader
  <2>1. todo # << >> /\ KindOf(Head(todo)) = "sized"
    BY <1>8 DEF ReadSizedHeader, Doing
  <2>2. PICK b \in Offered[root][Head(todo).type] :
          /\ size - Desc.width >= 0 /\ size' = size - Desc.width /\ input' = input \o b
          /\ UNCHANGED <<root, length>>
          /\ \/ value' = value \o <<FromBytes(b), Untouched>> /\ Continue(<< >>)
             \/ /\ value' = Append(value, FromBytes(b))
                /\ \/ Fail("TPM_RC_SIZE")
                   \/ Continue(<<CallFor(Desc.element, Head(todo).flag, 1),
                                 CloseOf(Head(todo).type, Number(FromBytes(b)), size')>>)
    BY <1>8 DEF ReadSizedHeader
  <2>3. /\ Number(FromBytes(b)) \in Nat /\ FromBytes(b) \in Value
        /\ Append(value, FromBytes(b)) \in Seq(Value)
        /\ Desc.kind = "sized" /\ Desc.width \in Nat
    BY <2>1, FetchFacts
  <2>4. value' \in Seq(Value)
    <3>1. value \o <<FromBytes(b), Untouched>> \in Seq(Value)
      <4>1. Untouched \in Value
        BY DEF Value
      <4>2. value \in Seq(Value) /\ <<FromBytes(b), Untouched>> \in Seq(Value)
        BY <2>3, <4>1 DEF UTypeOK
      <4> QED  BY <4>2, ConcatProperties
    <3> QED  BY <2>2, <2>3, <3>1
  <2>5. <<CallFor(Desc.element, Head(todo).flag, 1),
          CloseOf(Head(todo).type, Number(FromBytes(b)), size')>> \in Seq(Task)
    <3>1. size' \in Nat
      BY <2>2, <2>3 DEF UTypeOK
    <3>2. Desc.element \in Field /\ Head(todo).flag \in BOOLEAN /\ 1 \in Nat \ {0}
      BY <2>1, <2>3, HeadTask DEF Shape
    <3>3. CallFor(Desc.element, Head(todo).flag, 1) \in Task
      BY <3>2, CallForType
    <3>4. CloseOf(Head(todo).type, Number(FromBytes(b)), size') \in Task
      BY <2>1, <2>3, <3>1, HeadTask, CloseOfType
    <3> QED  BY <3>3, <3>4
  <2>6. todo' \in Seq(Task) /\ rc' \in Results
    BY <1>a, <1>d, <2>1, <2>2, <2>5, ContinueType, FailType
  <2> QED  BY <2>1, <2>2, <2>4, <2>6, <1>b
<1>9. CASE CloseSized
  <2>1. todo # << >> /\ (Continue(<< >>) \/ Fail("TPM_RC_SIZE"))
    BY <1>9 DEF CloseSized, Doing
  <2>2. todo' \in Seq(Task) /\ rc' \in Results
    BY <1>a, <1>d, <2>1, ContinueType, FailType
  <2> QED  BY <1>9, <2>1, <2>2, <1>c DEF CloseSized
<1> QED  BY <1>1, <1>2, <1>3, <1>4, <1>5, <1>6, <1>7, <1>8, <1>9 DEF UNext

-----------------------------------------------------------------------------
(* The bytes of a word, and of an integer of 1, 2, 4 or 8 bytes.           *)
LEMMA BytesOfWord == \A w \in Word : w \div 256 \in Byte /\ w % 256 \in Byte
<1>1. \A w \in Nat : w <= 65535 => w \div 256 \in Nat /\ w \div 256 <= 255
  OBVIOUS
<1>2. \A w \in Nat : w % 256 \in Nat /\ w % 256 <= 255
  OBVIOUS
<1>3. \A w \in Word : w \in Nat /\ w <= 65535
  BY SMTT(30) DEF Word
<1> QED  BY <1>1, <1>2, <1>3 DEF Byte

(* An integer of as many words as its width has is written in its bytes.   *)
LEMMA ToBytesType ==
  ASSUME NEW v \in Seq(Word), NEW width \in {1, 2, 4, 8}, Len(v) = WordsOf(width)
  PROVE  ToBytes(v, width) \in Seq(Byte) /\ Len(ToBytes(v, width)) = width
<1>1. \A i \in 1 .. WordsOf(width) : v[i] \in Word
  BY ElementOfSeq
<1>2. CASE width = 1
  <2>1. v[1] % 256 \in Byte
    BY <1>1, <1>2, BytesOfWord DEF WordsOf
  <2> QED  BY <1>2, <2>1 DEF ToBytes
<1>3. CASE width # 1
  <2>1. \A i \in 1 .. width : IF i % 2 = 1 THEN (i + 1) \div 2 \in 1 .. WordsOf(width)
                                         ELSE i \div 2 \in 1 .. WordsOf(width)
    BY <1>3 DEF WordsOf
  <2>2. \A i \in 1 .. width : (IF i % 2 = 1 THEN v[(i + 1) \div 2] \div 256
                                            ELSE v[i \div 2] % 256) \in Byte
    BY <1>1, <2>1, BytesOfWord
  <2>3. ToBytes(v, width) \in [1 .. width -> Byte]
    BY <1>3, <2>2 DEF ToBytes
  <2> QED  BY <2>3, FunctionIsSeq
<1> QED  BY <1>2, <1>3

(* What is stored are bytes, at offsets from 1, up to the end of b.        *)
LEMMA StoredFacts ==
  ASSUME MTypeOK, NEW b \in Seq(Byte), NEW o \in Nat
  PROVE  /\ \A p \in DOMAIN Stored(b, o) : p \in Nat /\ Stored(b, o)[p] \in Byte
         /\ \A p \in DOMAIN Stored(b, o) : p \in DOMAIN memory \/ p <= o + Len(b)
<1>1. Len(b) \in Nat /\ \A i \in 1 .. Len(b) : b[i] \in Byte
  BY LenProperties, ElementOfSeq
<1>2. DOMAIN Stored(b, o) = DOMAIN memory \cup (o + 1 .. o + Len(b))
  BY DEF Stored
<1>3. ASSUME NEW p \in DOMAIN Stored(b, o)
      PROVE  p \in Nat /\ Stored(b, o)[p] \in Byte /\ (p \in DOMAIN memory \/ p <= o + Len(b))
  <2>1. p \in Nat
    BY <1>1, <1>2 DEF MTypeOK
  <2>2. CASE p > o /\ p <= o + Len(b)
    <3>1. p - o \in 1 .. Len(b)
      BY <1>1, <2>1, <2>2
    <3> QED  BY <1>1, <1>2, <2>1, <2>2, <3>1 DEF Stored
  <2>3. CASE ~(p > o /\ p <= o + Len(b))
    <3>1. p \in DOMAIN memory
      BY <1>1, <1>2, <2>1, <2>3
    <3> QED  BY <1>2, <2>1, <2>3, <3>1 DEF Stored, MTypeOK
  <2> QED  BY <2>2, <2>3
<1> QED  BY <1>3

(* New calls in front of the tasks, with *buffer where it was or further.  *)
LEMMA ThenBehind ==
  ASSUME MTypeOK, ClosesBehind, left # << >>, at' \in Nat, at <= at',
         NEW calls \in Seq(Behind(at')), Then(calls)
  PROVE  left' \in Seq(Task) /\ ClosesBehind'
<1>1. Behind(at) \subseteq Behind(at') /\ Behind(at') \subseteq Task
  <2>1. ASSUME NEW k \in Behind(at) PROVE k \in Behind(at')
    BY DEF Behind, Task, MTypeOK
  <2>2. ASSUME NEW k \in Behind(at') PROVE k \in Task
    BY DEF Behind
  <2> QED  BY <2>1, <2>2
<1>2. Tail(left) \in Seq(Behind(at))
  BY HeadTailProperties DEF ClosesBehind
<1>3. Tail(left) \in Seq(Behind(at'))
  BY <1>1, <1>2, SeqMonotonic
<1>4. left' \in Seq(Behind(at'))
  BY <1>3, ConcatProperties DEF Then
<1>5. left' \in Seq(Task)
  BY <1>1, <1>4, SeqMonotonic
<1> QED  BY <1>4, <1>5 DEF ClosesBehind

(* A call does not end a sized structure, whose size field may be anywhere.*)
LEMMA CallsBehind ==
  ASSUME NEW o \in Nat, NEW s \in Seq({k \in Task : k.do = "call"})
  PROVE  s \in Seq(Behind(o))
<1>1. {k \in Task : k.do = "call"} \subseteq Behind(o)
  BY DEF Behind
<1> QED  BY <1>1, SeqMonotonic

(* A task whose size field lies behind o, alone.                           *)
LEMMA OneBehind ==
  ASSUME NEW o \in Nat, NEW k \in Behind(o)
  PROVE  <<k>> \in Seq(Behind(o))
OBVIOUS

(* Two of them.                                                            *)
LEMMA TwoBehind ==
  ASSUME NEW o \in Nat, NEW j \in Behind(o), NEW k \in Behind(o)
  PROVE  <<j, k>> \in Seq(Behind(o))
OBVIOUS

(* What is cut to a UINT16 is one, the count returned among it.            *)
LEMMA Truncated == \A d \in Int : d % 65536 \in Word
BY SMTT(30) DEF Word

(* The count returned stays a UINT16.                                      *)
LEMMA Counted == \A c \in Word, n \in Nat : (c + n) % 65536 \in Word
<1>1. \A c, n \in Nat : c + n \in Int
  OBVIOUS
<1> QED  BY <1>1, Truncated, WordsAreNat

(* As long as the room was enough, every byte is in it, but for those not  *)
(* yet charged: at = a, room = r, capacity = c, stepped = s.               *)
LEMMA Inside ==
  \A a, r \in Nat, c, s \in Int : a + r = c + s => \A p \in Nat : p <= a => p <= c + s
OBVIOUS

(* The task at hand.                                                       *)
LEMMA WriteTask ==
  ASSUME MTypeOK, left # << >>
  PROVE  /\ Head(left) \in Task /\ Head(left).type \in Types /\ Shape(MDesc)
         /\ Head(left).n \in Nat /\ Head(left).at \in Nat
BY ThenType, TaskFacts, EmptySeq DEF MTypeOK, MDesc

(* An integer or an array is charged, and stored if the room suffices.     *)
LEMMA PutStep ==
  ASSUME MTypeOK, WriteInv, left # << >>, NEW b \in Seq(Byte), Put(b),
         NEW calls \in Seq(Behind(at)), Then(calls),
         UNCHANGED <<source, capacity, bounded, stepped>>
  PROVE  MTypeOK' /\ WriteInv'
<1> DEFINE n == Len(b)
<1>1. n \in Nat
  BY LenProperties
<1>2. /\ room' = IF bounded THEN room - n ELSE room
      /\ count' = (count + n) % 65536 /\ next' = next + 1
  BY DEF Put, Returned
<1>3. \/ /\ ~bounded \/ room - n >= 0
         /\ memory' = Stored(b, at) /\ at' = at + n
      \/ /\ bounded /\ room - n < 0
         /\ UNCHANGED <<memory, at>>
  <2>1. n \in Int /\ room \in Int
    BY <1>1 DEF MTypeOK
  <2> QED  BY <2>1 DEF Put
<1>4. /\ \A p \in DOMAIN Stored(b, at) : p \in Nat /\ Stored(b, at)[p] \in Byte
      /\ \A p \in DOMAIN Stored(b, at) : p \in DOMAIN memory \/ p <= at + n
  BY StoredFacts DEF MTypeOK
<1> HIDE DEF n
<1>5. at \in Nat /\ at' \in Nat /\ at <= at'
  BY <1>1, <1>3 DEF MTypeOK
<1>6. left' \in Seq(Task) /\ ClosesBehind'
  <2>1. Behind(at) \subseteq Behind(at')
    BY <1>5 DEF Behind, Task
  <2>2. calls \in Seq(Behind(at'))
    BY <2>1, SeqMonotonic
  <2> QED  BY <1>5, <2>2, ThenBehind DEF WriteInv
<1>7. MTypeOK'
  <2>1. count' \in Word
    BY <1>1, <1>2, Counted DEF MTypeOK
  <2>2. \A p \in DOMAIN memory' : p \in Nat /\ memory'[p] \in Byte
    BY <1>3, <1>4 DEF MTypeOK
  <2> QED  BY <1>1, <1>2, <1>5, <1>6, <2>1, <2>2 DEF MTypeOK
<1>8. RoomIsKept'
  <2>1. ASSUME bounded, room - n >= 0
        PROVE  /\ at' + (room - n) = capacity + stepped
               /\ \A p \in DOMAIN memory' : p <= at'
    <3>1. room >= 0 /\ at' = at + n /\ memory' = Stored(b, at)
      BY <1>1, <1>3, <2>1 DEF MTypeOK
    <3>2. at + room = capacity + stepped /\ \A p \in DOMAIN memory : p <= at
      BY <2>1, <3>1 DEF WriteInv, RoomIsKept
    <3>3. at' + (room - n) = capacity + stepped
      BY <1>1, <3>1, <3>2 DEF MTypeOK
    <3>4. \A p \in DOMAIN memory' : p <= at'
      BY <1>1, <1>4, <1>5, <3>1, <3>2
    <3> QED  BY <3>3, <3>4
  <2> QED  BY <1>2, <2>1 DEF RoomIsKept
<1>9. WritesStayInRoom'
  <2>1. CASE bounded /\ room - n >= 0
    <3>1. at' + room' = capacity + stepped /\ room' >= 0 /\ \A p \in DOMAIN memory' : p <= at'
      BY <1>2, <1>8, <2>1 DEF RoomIsKept
    <3>2. room' \in Int /\ capacity \in Int /\ stepped \in Int
          /\ \A p \in DOMAIN memory' : p \in Nat
      BY <1>7 DEF MTypeOK
    <3>3. room' \in Nat /\ capacity' + stepped' = capacity + stepped
      BY <3>1, <3>2
    <3>4. \A p \in DOMAIN memory' : p <= capacity + stepped
      BY <1>5, <3>1, <3>2, <3>3, Inside
    <3> QED  BY <3>3, <3>4 DEF WritesStayInRoom
  <2>2. CASE ~(bounded /\ room - n >= 0)
    BY <1>1, <1>3, <2>2 DEF WriteInv, WritesStayInRoom, MTypeOK
  <2> QED  BY <2>1, <2>2
<1> QED  BY <1>6, <1>7, <1>8, <1>9 DEF WriteInv

(* One step of a marshal function.                                         *)
LEMMA WriteStep ==
  ASSUME MTypeOK, WriteInv, MNext
  PROVE  MTypeOK' /\ WriteInv'
<1>a. at \in Nat /\ << >> \in Seq(Behind(at)) /\ FALSE \in BOOLEAN /\ 1 \in Nat \ {0}
  BY EmptySeq DEF MTypeOK
<1>b. ASSUME left # << >>, NextIsInteger, KindOf(Head(left)) \in {"integer", "buffer", "list"}
      PROVE  /\ MDesc.kind = KindOf(Head(left))
             /\ ToBytes(source[next], MDesc.width) \in Seq(Byte)
             /\ Number(source[next]) \in Nat
  <2>1. MDesc.kind = KindOf(Head(left)) /\ MDesc.width \in {1, 2, 4, 8}
    BY <1>b, WriteTask, TaskFacts DEF MDesc, Shape
  <2>2. source[next] \in Seq(Word) /\ Len(source[next]) = WordsOf(MDesc.width)
    BY <1>b, LenProperties, ElementOfSeq DEF NextIsInteger, MTypeOK
  <2>3. Len(source[next]) >= 1
    BY <2>1, <2>2 DEF WordsOf
  <2> QED  BY <2>1, <2>2, <2>3, ToBytesType, NumberType
<1>1. CASE WriteInteger
  <2>1. /\ left # << >> /\ KindOf(Head(left)) = "integer" /\ NextIsInteger
        /\ Put(ToBytes(source[next], MDesc.width)) /\ Then(<< >>)
        /\ UNCHANGED <<source, capacity, bounded, stepped>>
    BY <1>1 DEF WriteInteger, Writing
  <2> QED  BY <1>a, <1>b, <2>1, PutStep
<1>2. CASE WriteBufferSize
  <2>1. /\ left # << >> /\ KindOf(Head(left)) = "buffer" /\ NextIsInteger
        /\ Put(ToBytes(source[next], MDesc.width))
        /\ Then(<<ArrayOf(Head(left).type, Number(source[next]))>>)
        /\ UNCHANGED <<source, capacity, bounded, stepped>>
    BY <1>2 DEF WriteBufferSize, Writing
  <2>2. ArrayOf(Head(left).type, Number(source[next])) \in Behind(at)
    BY <1>b, <2>1, WriteTask, ArrayOfType DEF Behind
  <2>3. <<ArrayOf(Head(left).type, Number(source[next]))>> \in Seq(Behind(at))
    BY <1>a, <2>2, OneBehind
  <2> QED  BY <1>b, <2>1, <2>3, PutStep
<1>3. CASE WriteBytes
  <2>1. /\ left # << >> /\ source[next] \in Seq(Byte)
        /\ Put(source[next]) /\ Then(<< >>)
        /\ UNCHANGED <<source, capacity, bounded, stepped>>
    BY <1>3 DEF WriteBytes, Writing, NextIsArray
  <2> QED  BY <1>a, <2>1, PutStep
<1>4. CASE WriteListCount
  <2>1. /\ left # << >> /\ KindOf(Head(left)) = "list" /\ NextIsInteger
        /\ Put(ToBytes(source[next], MDesc.width))
        /\ Then(Repeated(MDesc.element, Number(source[next])))
        /\ UNCHANGED <<source, capacity, bounded, stepped>>
    BY <1>4 DEF WriteListCount, Writing
  <2>2. Number(source[next]) \in Nat /\ MDesc.element \in Field
    BY <1>b, <2>1, WriteTask DEF Shape
  <2>3. Repeated(MDesc.element, Number(source[next])) \in Seq(Behind(at))
    BY <1>a, <2>2, RepeatedType, CallsBehind
  <2> QED  BY <1>b, <2>1, <2>3, PutStep
<1>c. ASSUME left # << >>, NEW calls \in Seq(Behind(at)), Then(calls),
             UNCHANGED <<source, next, capacity, bounded, room, at, memory, count, stepped>>
      PROVE  MTypeOK' /\ WriteInv'
  <2>1. left' \in Seq(Task) /\ ClosesBehind'
    BY <1>a, <1>c, ThenBehind DEF WriteInv
  <2> QED  BY <1>c, <2>1 DEF MTypeOK, WriteInv, RoomIsKept, WritesStayInRoom
<1>5. CASE WriteStruct
  <2>1. /\ left # << >> /\ KindOf(Head(left)) = "struct"
        /\ Then(CallsFor(MDesc.fields, FALSE, next))
        /\ UNCHANGED <<source, next, capacity, bounded, room, at, memory, count, stepped>>
    BY <1>5 DEF WriteStruct, Writing
  <2>2. MDesc.fields \in Seq(Field) /\ next \in Nat \ {0}
    BY <2>1, WriteTask, TaskFacts DEF MDesc, Shape, MTypeOK
  <2>3. CallsFor(MDesc.fields, FALSE, next) \in Seq(Behind(at))
    BY <1>a, <2>2, CallsForType, CallsBehind
  <2> QED  BY <2>1, <2>3, <1>c
<1>6. CASE WriteUnion
  <2>1. left # << >> /\ KindOf(Head(left)) = "union"
    BY <1>6 DEF WriteUnion, Writing
  <2>2. ASSUME NEW w \in DOMAIN MDesc.arms
        PROVE  <<CallFor(MDesc.arms[w], FALSE, 1)>> \in Seq(Behind(at))
    <3>1. MDesc.arms[w] \in Field
      BY <2>1, WriteTask, TaskFacts DEF MDesc, Shape
    <3>2. CallFor(MDesc.arms[w], FALSE, 1) \in Behind(at)
      BY <1>a, <3>1, CallForType DEF Behind
    <3> QED  BY <1>a, <3>2, OneBehind
  <2>3. \/ \E w \in DOMAIN MDesc.arms : Then(<<CallFor(MDesc.arms[w], FALSE, 1)>>)
        \/ Then(<< >>)
    BY <1>6 DEF WriteUnion
  <2>4. UNCHANGED <<source, next, capacity, bounded, room, at, memory, count, stepped>>
    BY <1>6 DEF WriteUnion
  <2> QED  BY <1>a, <1>c, <2>1, <2>2, <2>3, <2>4
<1>7. CASE WriteSizedHeader
  <2>1. /\ left # << >> /\ KindOf(Head(left)) = "sized"
        /\ at' = at + 2 /\ next' = next + 1 /\ stepped' = stepped + 2
        /\ Then(<<CallFor(MDesc.element, FALSE, 1), CloseOf(Head(left).type, count, at)>>)
        /\ UNCHANGED <<source, capacity, bounded, room, memory, count>>
    BY <1>7 DEF WriteSizedHeader, Writing
  <2>2. at' \in Nat /\ at <= at' /\ next' \in Nat \ {0} /\ stepped' \in Int
    BY <2>1 DEF MTypeOK
  <2>3. CallFor(MDesc.element, FALSE, 1) \in Behind(at')
    <3>1. MDesc.element \in Field
      BY <2>1, WriteTask, TaskFacts DEF MDesc, Shape
    <3> QED  BY <1>a, <3>1, CallForType DEF Behind
  <2>4. CloseOf(Head(left).type, count, at) \in Behind(at')
    <3>1. count \in Nat
      BY WordsAreNat DEF MTypeOK
    <3>2. /\ CloseOf(Head(left).type, count, at) \in Task
          /\ CloseOf(Head(left).type, count, at).at = at
      BY <1>a, <2>1, <3>1, WriteTask, CloseOfType
    <3> QED  BY <1>a, <2>1, <3>2 DEF Behind
  <2>5. left' \in Seq(Task) /\ ClosesBehind'
    <3>1. <<CallFor(MDesc.element, FALSE, 1), CloseOf(Head(left).type, count, at)>>
            \in Seq(Behind(at'))
      BY <2>2, <2>3, <2>4, TwoBehind
    <3> QED  BY <2>1, <2>2, <3>1, ThenBehind DEF WriteInv
  <2>6. MTypeOK'
    BY <2>1, <2>2, <2>5 DEF MTypeOK
  <2>7. RoomIsKept'
    <3>1. bounded /\ room >= 0 => at' + room = capacity + stepped'
      BY <2>1 DEF WriteInv, RoomIsKept, MTypeOK
    <3>2. bounded /\ room >= 0 => \A p \in DOMAIN memory : p <= at'
      BY <2>1 DEF WriteInv, RoomIsKept, MTypeOK
    <3> QED  BY <2>1, <3>1, <3>2 DEF RoomIsKept
  <2>8. WritesStayInRoom'
    BY <2>1 DEF WriteInv, WritesStayInRoom, MTypeOK
  <2> QED  BY <2>5, <2>6, <2>7, <2>8 DEF WriteInv
<1>8. CASE WriteSize
  <2> DEFINE n == (count - Head(left).n) % 65536
             o == Head(left).at
  <2>1. /\ left # << >> /\ KindOf(Head(left)) = "close"
        /\ room' = IF bounded THEN room - 2 ELSE room
        /\ \/ /\ ~bounded \/ room - 2 >= 0
              /\ memory' = Stored(ToBytes(<<n>>, 2), o) /\ stepped' = stepped - 2
           \/ /\ bounded /\ room - 2 < 0
              /\ UNCHANGED <<memory, stepped>>
        /\ count' = (count + 2) % 65536 /\ Then(<< >>)
        /\ UNCHANGED <<source, next, capacity, bounded, at>>
    <3>1. room - 2 < 0 \/ room - 2 >= 0
      BY DEF MTypeOK
    <3> QED  BY <1>8, <3>1 DEF WriteSize, Writing, Returned
  <2>2. o \in Nat /\ o + 2 <= at
    <3>1. Head(left) \in Behind(at)
      BY <2>1, HeadTailProperties DEF WriteInv, ClosesBehind
    <3>2. Head(left).do = "close"
      BY <2>1, WriteTask, TaskFacts
    <3> QED  BY <2>1, <3>1, <3>2, WriteTask DEF Behind
  <2>3. ToBytes(<<n>>, 2) \in Seq(Byte) /\ Len(ToBytes(<<n>>, 2)) = 2
    <3>2. count - Head(left).n \in Int
      <4>1. count \in Nat /\ Head(left).n \in Nat
        BY <2>1, WriteTask, WordsAreNat DEF MTypeOK
      <4> QED  BY <4>1
    <3>3. n \in Word
      BY <3>2, Truncated
    <3> HIDE DEF n
    <3>4. <<n>> \in Seq(Word) /\ Len(<<n>>) = WordsOf(2) /\ 2 \in {1, 2, 4, 8}
      BY <3>3 DEF WordsOf
    <3> QED  BY <3>4, ToBytesType
  <2> DEFINE b == ToBytes(<<n>>, 2)
  <2>z. b \in Seq(Byte) /\ Len(b) = 2
    BY <2>3
  <2> HIDE DEF n, o, b
  <2>4. /\ \A p \in DOMAIN Stored(b, o) : p \in Nat /\ Stored(b, o)[p] \in Byte
        /\ \A p \in DOMAIN Stored(b, o) : p \in DOMAIN memory \/ p <= o + 2
    <3>1. /\ \A p \in DOMAIN Stored(b, o) : p \in Nat /\ Stored(b, o)[p] \in Byte
          /\ \A p \in DOMAIN Stored(b, o) : p \in DOMAIN memory \/ p <= o + Len(b)
      BY <2>2, <2>z, StoredFacts
    <3> QED  BY <3>1, <2>z
  <2>5. left' \in Seq(Task) /\ ClosesBehind'
    <3>1. at' \in Nat /\ at <= at' /\ << >> \in Seq(Behind(at'))
      BY <1>a, <2>1
    <3>2. left # << >> /\ Then(<< >>)
      BY <2>1
    <3>3. ClosesBehind
      BY DEF WriteInv
    <3> QED  BY <3>1, <3>2, <3>3, ThenBehind
  <2>6. count' \in Word
    BY <2>1, Counted DEF MTypeOK
  <2>7. room' \in Int /\ stepped' \in Int
    BY <2>1 DEF MTypeOK
  <2>8. \A p \in DOMAIN memory' : p \in Nat /\ memory'[p] \in Byte
    BY <2>1, <2>4 DEF MTypeOK, b
  <2>9. MTypeOK'
    BY <2>1, <2>5, <2>6, <2>7, <2>8 DEF MTypeOK
  <2>10. ASSUME bounded, room - 2 >= 0
         PROVE  /\ at + room' = capacity + stepped' /\ room' \in Nat
                /\ \A p \in DOMAIN memory' : p <= at
    <3>1. /\ room >= 0 /\ room' = room - 2 /\ stepped' = stepped - 2
          /\ memory' = Stored(b, o)
      BY <2>1, <2>10 DEF MTypeOK, b
    <3>2. at + room = capacity + stepped /\ \A p \in DOMAIN memory : p <= at
      BY <2>10, <3>1 DEF WriteInv, RoomIsKept
    <3>3. at + room' = capacity + stepped' /\ room' \in Nat
      BY <2>10, <3>1, <3>2 DEF MTypeOK
    <3>4. \A p \in Nat : p <= o + 2 => p <= at
      BY <1>a, <2>2
    <3>5. \A p \in DOMAIN memory' : p <= at
      BY <2>4, <3>1, <3>2, <3>4
    <3> QED  BY <3>3, <3>5
  <2>11. RoomIsKept'
    BY <2>1, <2>10 DEF RoomIsKept, MTypeOK
  <2>12. WritesStayInRoom'
    <3>1. CASE bounded /\ room - 2 >= 0
      <4>1. \A p \in DOMAIN memory' : p <= capacity + stepped'
        <5>1. capacity \in Int /\ \A p \in DOMAIN memory' : p \in Nat
          BY <2>8 DEF MTypeOK
        <5> QED  BY <1>a, <2>7, <2>10, <3>1, <5>1, Inside
      <4> QED  BY <2>1, <4>1 DEF WritesStayInRoom
    <3>2. CASE ~(bounded /\ room - 2 >= 0)
      BY <2>1, <3>2 DEF WriteInv, WritesStayInRoom, MTypeOK
    <3> QED  BY <3>1, <3>2
  <2> QED  BY <2>5, <2>9, <2>11, <2>12 DEF WriteInv
<1> QED  BY <1>1, <1>2, <1>3, <1>4, <1>5, <1>6, <1>7, <1>8 DEF MNext

-----------------------------------------------------------------------------
(* The invariant holds before anything was read.                           *)
LEMMA MarshalInvInit == Init => MarshalInv
<1> SUFFICES ASSUME Init PROVE MarshalInv
  OBVIOUS
<1>1. UTypeOK
  <2>1. PICK flag \in BOOLEAN :
          todo = <<CallFor([type |-> root, flag |-> "same", selector |-> 1], flag, 1)>>
    BY DEF Init, UInit
  <2>2. root \in Types /\ length \in Nat /\ size = length
    BY CallsAssumption DEF Init, UInit
  <2>3. [type |-> root, flag |-> "same", selector |-> 1] \in Field /\ 1 \in Nat \ {0}
    BY <2>2 DEF Field
  <2>4. todo \in Seq(Task)
    BY <2>1, <2>3, CallForType, OneTask
  <2>5. rc \in Results /\ input = << >> /\ value = << >>
    BY DEF Init, UInit, Results
  <2> QED  BY <2>2, <2>4, <2>5, EmptySeq DEF UTypeOK
<1>2. ReadsStayInside
  <2>1. length \in Nat /\ size = length /\ Len(input) = 0
    BY CallsAssumption, EmptySeq DEF Init, UInit
  <2> QED  BY <2>1 DEF ReadsStayInside
<1>3. MTypeOK /\ phase \in {"reading", "writing"}
  BY EmptySeq DEF Init, Idle, MTypeOK, Word
<1>4. WriteInv
  BY EmptySeq DEF Init, Idle, WriteInv, ClosesBehind, RoomIsKept, WritesStayInRoom
<1> QED  BY <1>1, <1>2, <1>3, <1>4 DEF MarshalInv, TypeOK

(* A call starts with nothing written, nothing stepped over, and all its   *)
(* room.                                                                   *)
LEMMA CallStarts ==
  ASSUME NEW t \in Types, NEW s \in Seq(Seq(Word)), NEW c \in Nat, NEW b \in BOOLEAN,
         MarshalCall(t, s, c, b)
  PROVE  MTypeOK' /\ WriteInv'
<1> DEFINE k == CallFor([type |-> t, flag |-> "no", selector |-> 1], FALSE, 1)
<1>1. [type |-> t, flag |-> "no", selector |-> 1] \in Field /\ 1 \in Nat \ {0}
      /\ FALSE \in BOOLEAN
  BY DEF Field
<1>2. k \in Task /\ k \in Behind(0)
  BY <1>1, CallForType DEF Behind
<1> HIDE DEF k
<1>3. <<k>> \in Seq(Task) /\ <<k>> \in Seq(Behind(0))
  BY <1>2
<1>4. /\ left' = <<k>> /\ source' = s /\ next' = 1 /\ capacity' = c /\ bounded' = b
      /\ room' = c /\ at' = 0 /\ memory' = << >> /\ count' = 0 /\ stepped' = 0
  BY DEF MarshalCall, k
<1>5. MTypeOK'
  BY <1>3, <1>4, SMTT(30) DEF MTypeOK, Word
<1>6. ClosesBehind'
  BY <1>3, <1>4 DEF ClosesBehind
<1>7. RoomIsKept' /\ WritesStayInRoom'
  BY <1>4 DEF RoomIsKept, WritesStayInRoom
<1> QED  BY <1>5, <1>6, <1>7 DEF WriteInv

(* Every step of a reading or a writing call keeps the invariant.          *)
LEMMA MarshalInvStep == MarshalInv /\ [Next]_vars => MarshalInv'
<1> SUFFICES ASSUME MarshalInv, [Next]_vars PROVE MarshalInv'
  OBVIOUS
<1> USE DEF MarshalInv
<1>a. UTypeOK /\ MTypeOK /\ phase \in {"reading", "writing"} /\ ReadsStayInside /\ WriteInv
  BY DEF TypeOK
<1>b. UNCHANGED uvars => UTypeOK' /\ ReadsStayInside'
  BY <1>a DEF uvars, UTypeOK, ReadsStayInside, UDone
<1>c. UNCHANGED mvars => MTypeOK' /\ WriteInv'
  BY <1>a DEF mvars, MTypeOK, WriteInv, ClosesBehind, RoomIsKept, WritesStayInRoom
<1>1. CASE Reading
  BY <1>a, <1>c, <1>1, ReadStep DEF Reading, TypeOK
<1>2. CASE Again
  <2>1. Accepted /\ UNCHANGED uvars /\ phase' = "writing"
    BY <1>2 DEF Again
  <2>2. value \in Seq(Seq(Word))
    <3>1. \A i \in 1 .. Len(value) : value[i] \in Seq(Word)
      <4>1. \A i \in 1 .. Len(value) : value[i] \in Value /\ value[i] # Untouched
        BY <1>a, <2>1, ElementOfSeq, LenProperties DEF UTypeOK, Accepted
      <4> QED  BY <4>1 DEF Value
    <3>2. value \in Seq(Value)
      BY <1>a DEF UTypeOK
    <3>3. DOMAIN value = 1 .. Len(value) /\ Len(value) \in Nat
          /\ value = [i \in 1 .. Len(value) |-> value[i]]
      BY <3>2, LenProperties
    <3>4. value \in [1 .. Len(value) -> Seq(Word)]
      BY <3>1, <3>3
    <3> QED  BY <3>3, <3>4, FunctionIsSeq
  <2>3. PICK c \in Nat, b \in BOOLEAN : MarshalCall(root, value, c, b)
    <3>1. Len(input) \in Nat
      BY <1>a, LenProperties DEF UTypeOK
    <3>2. \A d \in Slack : Len(input) + d >= 0 => Len(input) + d \in Nat
      BY <3>1, SlackAssumption
    <3> QED  BY <1>2, <3>2 DEF Again
  <2>4. root \in Types
    BY <1>a DEF UTypeOK
  <2>5. MTypeOK' /\ WriteInv'
    BY <2>2, <2>3, <2>4, CallStarts
  <2> QED  BY <1>b, <2>1, <2>5 DEF TypeOK
<1>3. CASE Writes
  BY <1>a, <1>b, <1>3, WriteStep DEF Writes, TypeOK
<1>4. CASE Finished
  BY <1>a, <1>b, <1>c, <1>4 DEF Finished, vars, TypeOK
<1>5. CASE UNCHANGED vars
  BY <1>a, <1>b, <1>c, <1>5 DEF vars, TypeOK
<1> QED  BY <1>1, <1>2, <1>3, <1>4, <1>5 DEF Next

(* The invariant holds whatever is read and written.                       *)
THEOREM MarshalInvariance == Spec => []MarshalInv
BY MarshalInvInit, MarshalInvStep, PTL DEF Spec

(* The variables of an unmarshal and a marshal call have their types: the  *)
(* bytes written are bytes, and the size returned stays a UINT16.          *)
THEOREM MarshalTyping == Spec => []TypeOK
<1>1. MarshalInv => TypeOK
  BY DEF MarshalInv
<1> QED  BY <1>1, MarshalInvariance, PTL

(* Whatever the types and the bytes offered, the unmarshal functions take  *)
(* no more from the buffer than it has, and charge what they take.         *)
THEOREM ReadsAreInside == Spec => []ReadsStayInside
<1>1. MarshalInv => ReadsStayInside
  BY DEF MarshalInv
<1> QED  BY <1>1, MarshalInvariance, PTL

(* Whatever the types and the room given, the marshal functions write      *)
(* nothing past the room, but for size fields stepped over and not charged.*)
THEOREM WritesAreInRoom == Spec => []WritesStayInRoom
<1>1. MarshalInv => WritesStayInRoom
  BY DEF MarshalInv, WriteInv
<1> QED  BY <1>1, MarshalInvariance, PTL
=============================================================================

----------------------------- MODULE JsonProofs -----------------------------
(***************************************************************************)
(* What is proved about the two readers of JSON.                           *)
(*                                                                         *)
(* About JsonArraySplitter, for every set of streams and every length of   *)
(* the buffer and of the byte order mark: the buffer grows only for a      *)
(* token that does not fit, no byte of a whole text is lost, doubled or    *)
(* displaced between the stream and the reader, and an array of objects is *)
(* split into its items, in order and to its end.  One part is about bytes *)
(* and cells: Holds says where the unread bytes stand.  It makes the       *)
(* reader read one token after the other, and the other part is about      *)
(* tokens: Splitting says what of a good array has been given, and what is *)
(* being written.                                                          *)
(*                                                                         *)
(* About PolymorphicConverter, for every set of JSON texts, every          *)
(* discriminator and all sub types: an object is what the first            *)
(* discriminator of its own says.  LookAhead says where the copy of the    *)
(* reader may stand.                                                       *)
(***************************************************************************)
EXTENDS JsonArraySplitter, PolymorphicConverter, FiniteSetTheorems, SequenceTheorems, TLAPS

(* What the reader and the buffer are made of; a reader has consumed no    *)
(* more cells than there are.                                              *)
ReaderState == [last : 0..Len(input), open : Int, mid : Nat]
Reader == [state : ReaderState, at : 0..Len(buffer)]

Types ==
    /\ input \in Seq(Token) /\ LaidOut(input)
    /\ size \in Nat /\ bom \in BOOLEAN /\ short \in BOOLEAN
    /\ delivered \in 0..Bytes
    /\ buffer \in Seq(Int)
    /\ cached \in ReaderState
    /\ reader \in Reader
    /\ pc \in {"new", "start", "idle", "search", "write", "failed"}
    /\ IF pc = "new"
       THEN /\ delivered = 0 /\ Len(buffer) = BufferSize
            /\ cached = Fresh /\ reader = NewReader(Fresh)
       ELSE BomBytes <= delivered

(* Containers open after token u of the text.                              *)
Open(u) == Cardinality({v \in 1..u : input[v].kind \in Opening})
             - Cardinality({v \in 1..u : input[v].kind \in Closing})

(* The stream holds the whole of a text, and has no byte order mark when   *)
(* it reads short.                                                         *)
WholeText ==
    /\ ~(bom /\ short)
    /\ size >= LastByte(input)
    /\ input # <<>> => Open(Len(input)) = 0

(* A state of the reader says how many containers are open, and is between *)
(* two tokens, in the white space before the next, or behind the text.     *)
StateKnown(s) ==
    /\ s.open = Open(s.last)
    /\ s.mid # 0 =>
          IF s.last < Len(input)
          THEN input[s.last + 1].start <= s.mid /\ s.mid < input[s.last + 1].text
          ELSE LastByte(input) <= s.mid

(* The unread bytes stand behind the cells the reader r has consumed; they *)
(* fill the buffer unless the stream is over.                              *)
Holds(r) ==
    LET unread == TextDelivered - Position(r.state)
    IN  /\ StateKnown(r.state)
        /\ unread >= 0
        /\ delivered = Bytes \/ unread = Len(buffer) - r.at
        /\ \A j \in 1..unread :
              /\ r.at + j \in DOMAIN buffer
              /\ buffer[r.at + j] = Position(r.state) + j

(* The inductive invariant.  The next call begins with the cached state:   *)
(* the buffer must hold what is unread for that one, too.                  *)
IInv ==
    /\ Types
    /\ GrowsForOneToken
    /\ WholeText /\ pc \notin {"new", "failed"} =>
          /\ Holds(NewReader(cached))
          /\ pc # "idle" => Holds(reader)
----------------------------------------------------------------------------
(* What is counted up to u is what is counted before, and u or not.        *)
LEMMA CountStep ==
    ASSUME NEW tokens, NEW K, NEW u \in Nat \ {0}
    PROVE  LET counted(n) == {v \in 1..n : tokens[v].kind \in K}
           IN  /\ Cardinality(counted(u - 1)) \in Nat
               /\ Cardinality(counted(u)) =
                     Cardinality(counted(u - 1)) + IF tokens[u].kind \in K THEN 1 ELSE 0
<1> DEFINE before == {v \in 1..u - 1 : tokens[v].kind \in K}
           upTo == {v \in 1..u : tokens[v].kind \in K}
<1>1. IsFiniteSet(before)
  <2>1. IsFiniteSet(1..u - 1)  BY FS_Interval
  <2> QED  BY <2>1, FS_Subset
<1>2. Cardinality(before) \in Nat  BY <1>1, FS_CardinalityType
<1>3. upTo = IF tokens[u].kind \in K THEN before \cup {u} ELSE before  OBVIOUS
<1>4. u \notin before  OBVIOUS
<1>5. Cardinality(before \cup {u}) = Cardinality(before) + 1  BY <1>1, <1>4, FS_AddElement
<1>6. Cardinality(upTo) = Cardinality(before) + IF tokens[u].kind \in K THEN 1 ELSE 0
  <2> HIDE DEF before, upTo
  <2> QED  BY <1>2, <1>3, <1>5
<1> QED  BY <1>2, <1>6

(* A bracket opens or closes one container.                                *)
LEMMA OpenStep ==
    ASSUME NEW u \in Nat \ {0}
    PROVE  /\ Open(u - 1) \in Int
           /\ Open(u) = Open(u - 1)
                + (IF input[u].kind \in Opening THEN 1
                   ELSE IF input[u].kind \in Closing THEN -1 ELSE 0)
<1> DEFINE count(K, n) == Cardinality({v \in 1..n : input[v].kind \in K})
<1>1. /\ count(Opening, u - 1) \in Nat /\ count(Closing, u - 1) \in Nat
      /\ count(Opening, u) = count(Opening, u - 1) + IF input[u].kind \in Opening THEN 1 ELSE 0
      /\ count(Closing, u) = count(Closing, u - 1) + IF input[u].kind \in Closing THEN 1 ELSE 0
  BY CountStep
<1>2. \A n : Open(n) = count(Opening, n) - count(Closing, n)
  BY DEF Open
<1>3. input[u].kind \notin Opening \/ input[u].kind \notin Closing  BY DEF Opening, Closing
<1> HIDE DEF count
<1> QED  BY <1>1, <1>2, <1>3

(* Before the first token nothing is open.                                 *)
LEMMA OpenNone == Open(0) = 0
<1>1. \A K : {v \in 1..0 : input[v].kind \in K} = {}  OBVIOUS
<1> QED  BY <1>1, FS_EmptySet DEF Open
----------------------------------------------------------------------------
(* The three movements of cells keep the buffer's length.                  *)
LEMMA StoreFacts ==
    ASSUME NEW buf \in Seq(Int), NEW k \in Nat, NEW n \in Nat, NEW taken \in Nat, bom \in BOOLEAN
    PROVE  /\ Store(buf, k, n, taken) \in Seq(Int)
           /\ Len(Store(buf, k, n, taken)) = Len(buf)
           /\ \A j \in 1..Len(buf) : Store(buf, k, n, taken)[j] =
                 IF j \in k + 1..k + n THEN StreamByte(taken + j - k) ELSE buf[j]
<1>1. DOMAIN buf = 1..Len(buf) /\ Len(buf) \in Nat  OBVIOUS
<1>2. BomLength \in Int  BY StreamAssumption
<1>3. \A x \in Int : StreamByte(x) \in Int  BY <1>2 DEF StreamByte
<1>4. Store(buf, k, n, taken) \in [1..Len(buf) -> Int]
  <2>1. \A j \in 1..Len(buf) : taken + j - k \in Int /\ buf[j] \in Int  BY <1>1
  <2> QED  BY <1>1, <1>3, <2>1 DEF Store
<1>5. \A j \in 1..Len(buf) : Store(buf, k, n, taken)[j] =
         IF j \in k + 1..k + n THEN StreamByte(taken + j - k) ELSE buf[j]
  BY <1>1 DEF Store
<1>6. Store(buf, k, n, taken) \in Seq(Int) /\ Len(Store(buf, k, n, taken)) = Len(buf)
  BY <1>1, <1>4
<1> QED  BY <1>5, <1>6

(* What the move takes to the front stood k cells behind.                  *)
LEMMA MoveFacts ==
    ASSUME NEW buf \in Seq(Int), NEW k \in 0..Len(buf)
    PROVE  /\ MoveToFront(buf, k) \in Seq(Int)
           /\ Len(MoveToFront(buf, k)) = Len(buf)
           /\ \A j \in 1..Len(buf) - k : MoveToFront(buf, k)[j] = buf[j + k]
<1>1. DOMAIN buf = 1..Len(buf) /\ Len(buf) \in Nat  OBVIOUS
<1>2. MoveToFront(buf, k) \in [1..Len(buf) -> Int]  BY <1>1 DEF MoveToFront
<1>3. \A j \in 1..Len(buf) - k : MoveToFront(buf, k)[j] = buf[j + k]  BY <1>1 DEF MoveToFront
<1> QED  BY <1>1, <1>2, <1>3

(* The cells in front are not cleared.                                     *)
LEMMA ClearFacts ==
    ASSUME NEW buf \in Seq(Int), NEW k \in Nat
    PROVE  /\ ClearFrom(buf, k) \in Seq(Int)
           /\ Len(ClearFrom(buf, k)) = Len(buf)
           /\ \A j \in 1..Len(buf) : j <= k => ClearFrom(buf, k)[j] = buf[j]
<1>1. DOMAIN buf = 1..Len(buf) /\ Len(buf) \in Nat  OBVIOUS
<1>2. ClearFrom(buf, k) \in [1..Len(buf) -> Int]  BY <1>1 DEF ClearFrom
<1>3. \A j \in 1..Len(buf) : j <= k => ClearFrom(buf, k)[j] = buf[j]  BY <1>1 DEF ClearFrom
<1> QED  BY <1>1, <1>2, <1>3
----------------------------------------------------------------------------
(* Rest is what the reader has not consumed.                               *)
LEMMA RestFacts ==
    ASSUME Types
    PROVE  /\ Len(Rest) = Len(buffer) - reader.at /\ Len(Rest) \in Nat
           /\ \A j \in 1..Len(Rest) : Rest[j] = buffer[reader.at + j]
           /\ Rest = <<>> <=> Len(Rest) = 0
<1>1. /\ buffer \in Seq(Int) /\ reader.at \in 0..Len(buffer) /\ Len(buffer) \in Nat
  BY DEF Types, Reader
<1>2. Rest \in Seq(Int)  BY <1>1, SubSeqProperties DEF Rest
<1>3. Len(Rest) = Len(buffer) - reader.at  BY <1>1 DEF Rest
<1>4. \A j \in 1..Len(Rest) : Rest[j] = buffer[reader.at + j]
  <2>1. \A i \in reader.at + 1..Len(buffer) : buffer[i] \in Int  BY <1>1
  <2>2. \A j \in 1..Len(buffer) - (reader.at + 1) + 1 : Rest[j] = buffer[reader.at + 1 + j - 1]
    BY <1>1, <2>1, SubSeqProperties, SMTT(30) DEF Rest
  <2>3. \A j \in 1..Len(Rest) :
           /\ j \in 1..Len(buffer) - (reader.at + 1) + 1
           /\ reader.at + 1 + j - 1 = reader.at + j
    BY <1>1, <1>3
  <2> QED  BY <2>2, <2>3
<1>5. Rest = <<>> <=> Len(Rest) = 0  BY <1>2, EmptySeq
<1> QED  BY <1>1, <1>3, <1>4, <1>5

(* The tokens of a text lie one behind the other.                          *)
LEMMA TokenFacts ==
    ASSUME Types
    PROVE  /\ Len(input) \in Nat /\ DOMAIN input = 1..Len(input)
           /\ \A u \in 1..Len(input) :
                 /\ input[u].start \in Nat /\ input[u].text \in Nat /\ input[u].end \in Nat
                 /\ input[u].start <= input[u].text /\ input[u].text <= input[u].end
                 /\ input[u].start = IF u = 1 THEN 1 ELSE input[u - 1].end + 1
           /\ \A u, v \in 1..Len(input) : u < v => input[u].end < input[v].start
<1>1. input \in Seq(Token) /\ LaidOut(input)  BY DEF Types
<1>2. Len(input) \in Nat /\ DOMAIN input = 1..Len(input)  BY <1>1
<1>3. \A u \in 1..Len(input) : input[u] \in Token  BY <1>1
<1>4. \A u \in 1..Len(input) :
         input[u].start \in Nat /\ input[u].text \in Nat /\ input[u].end \in Nat
  BY <1>3 DEF Token
<1> QED  BY <1>1, <1>2, <1>4 DEF LaidOut

(* Where the reader goes on is in the token it is at.                      *)
LEMMA FromFacts ==
    ASSUME Types, NEW u \in DOMAIN input, AtToken(u)
    PROVE  /\ From(u) \in Nat /\ From(u) >= 1
           /\ input[u].start <= From(u) /\ From(u) <= input[u].text
           /\ Len(Rest) > 0
           /\ reader.state.open > 0 \/ reader.state.last = 0
           /\ Rest[1] = From(u)
<1>1. /\ u \in 1..Len(input) /\ input[u].start \in Nat /\ input[u].text \in Nat
      /\ input[u].end \in Nat /\ input[u].text <= input[u].end
  BY TokenFacts
<1>2. input[u].start >= 1
  <2>1. CASE u = 1  BY <1>1, <2>1, TokenFacts
  <2>2. CASE u # 1
    <3>1. u - 1 \in 1..Len(input)  BY <1>1, <2>2, TokenFacts
    <3> QED  BY <1>1, <2>2, <3>1, TokenFacts
  <2> QED  BY <2>1, <2>2
<1>3. From(u) \in input[u].start..input[u].text /\ Rest # <<>>  BY DEF AtToken
<1>4. Len(Rest) \in Nat /\ Len(Rest) > 0  BY <1>3, RestFacts
<1>5. From(u) \in Nat  BY <1>1, <1>3
<1>6. Rest[1] = From(u)
  <2>1. 1 \in 1..Min2(Len(Rest), input[u].end - From(u) + 1)
    BY <1>1, <1>3, <1>4, <1>5 DEF Min2
  <2>2. Rest[1] = From(u) + 1 - 1  BY <2>1 DEF AtToken, Stands
  <2> QED  BY <1>5, <2>2
<1>7. reader.state.open > 0 \/ reader.state.last = 0  BY DEF AtToken
<1> QED  BY <1>1, <1>2, <1>3, <1>4, <1>5, <1>6, <1>7

(* A whole text ends with its last token.                                  *)
LEMMA LastByteFacts ==
    ASSUME Types
    PROVE  /\ LastByte(input) \in Nat
           /\ input # <<>> <=> Len(input) > 0
           /\ Len(input) > 0 => LastByte(input) = input[Len(input)].end
           /\ \A v \in 1..Len(input) : input[v].end <= LastByte(input)
<1>1. /\ Len(input) \in Nat /\ input \in Seq(Token)
      /\ \A u \in 1..Len(input) :
            input[u].start \in Nat /\ input[u].end \in Nat /\ input[u].start <= input[u].end
  <2>1. \A u \in 1..Len(input) : input[u].start <= input[u].end
    <3> TAKE u \in 1..Len(input)
    <3>1. /\ input[u].start \in Nat /\ input[u].text \in Nat /\ input[u].end \in Nat
          /\ input[u].start <= input[u].text /\ input[u].text <= input[u].end
      BY TokenFacts
    <3> QED  BY <3>1
  <2> QED  BY <2>1, TokenFacts DEF Types
<1>2. input # <<>> <=> Len(input) > 0  BY <1>1, EmptySeq
<1>3. Len(input) > 0 => LastByte(input) = input[Len(input)].end  BY <1>2 DEF LastByte
<1>4. LastByte(input) \in Nat
  <2>1. CASE Len(input) > 0
    <3>1. Len(input) \in 1..Len(input)  BY <1>1, <2>1
    <3> QED  BY <1>1, <1>3, <2>1, <3>1
  <2>2. CASE ~(Len(input) > 0)  BY <1>2, <2>2 DEF LastByte
  <2> QED  BY <2>1, <2>2
<1>5. ASSUME NEW v \in 1..Len(input) PROVE input[v].end <= LastByte(input)
  <2>1. Len(input) \in 1..Len(input) /\ Len(input) > 0  BY <1>1
  <2>2. CASE v = Len(input)
    <3>1. LastByte(input) = input[v].end  BY <1>3, <2>1, <2>2
    <3> QED  BY <1>1, <3>1
  <2>3. CASE v # Len(input)
    <3>1. v < Len(input)  BY <1>1, <2>3
    <3>2. input[v].end < input[Len(input)].start  BY <2>1, <3>1, TokenFacts
    <3>3. /\ input[Len(input)].start \in Nat /\ input[Len(input)].end \in Nat
          /\ input[Len(input)].start <= input[Len(input)].end /\ input[v].end \in Nat
      BY <1>1, <2>1
    <3>4. input[v].end <= input[Len(input)].end  BY <3>2, <3>3
    <3> QED  BY <1>3, <2>1, <3>4
  <2> QED  BY <2>2, <2>3
<1> QED  BY <1>2, <1>3, <1>4, <1>5

(* No byte of a token itself is white space outside the root value.        *)
LEMMA TokenIsNotBlank ==
    ASSUME Types, NEW u \in 1..Len(input), NEW b \in input[u].text..input[u].end
    PROVE  ~WhiteSpace(b)
<1>1. /\ input[u].start \in Nat /\ input[u].text \in Nat /\ input[u].end \in Nat
      /\ input[u].start <= input[u].text /\ u \in Nat /\ Len(input) \in Nat
      /\ b \in Int /\ input[u].text <= b /\ b <= input[u].end
  BY TokenFacts
<1>2. ~(b > LastByte(input))
  <2>1. input[u].end <= LastByte(input) /\ LastByte(input) \in Nat  BY LastByteFacts
  <2> QED  BY <1>1, <2>1
<1>3. input[1].text \in Nat /\ input[1].end \in Nat /\ input[1].text <= input[1].end
  <2>1. 1 \in 1..Len(input)  BY <1>1
  <2> QED  BY <2>1, TokenFacts
<1>4. b >= input[1].text
  <2>1. CASE u = 1  BY <1>1, <2>1
  <2>2. CASE u # 1
    <3>1. 1 \in 1..Len(input) /\ 1 < u  BY <1>1, <2>2
    <3>2. input[1].end < input[u].start  BY <3>1, TokenFacts
    <3> QED  BY <1>1, <1>3, <3>2
  <2> QED  BY <2>1, <2>2
<1>5. b \notin input[1].start..input[1].text - 1  BY <1>1, <1>3, <1>4
<1> QED  BY <1>2, <1>5 DEF WhiteSpace

(* Where the reader goes on behind a token, and that its bytes are there.  *)
LEMMA ReadFacts ==
    ASSUME Types, NEW u \in DOMAIN input, Reads(u)
    PROVE  /\ AtToken(u) /\ input[u].end - From(u) < Len(Rest)
           /\ After(u).at = reader.at + input[u].end - From(u) + 1
<1>1. AtToken(u) /\ Ahead(u) <= Len(Rest)
  <2>1. AtToken(u) /\ Fits(u)  BY DEF Reads
  <2>2. Ahead(u) \in Int /\ Len(Rest) \in Nat
    <3>1. input[u].end \in Nat /\ From(u) \in Nat  BY <2>1, TokenFacts, FromFacts
    <3> QED  BY <3>1, RestFacts DEF Ahead
  <2>3. Ahead(u) < Len(Rest) \/ Ahead(u) <= Len(Rest)  BY <2>1 DEF Fits
  <2> QED  BY <2>1, <2>2, <2>3
<1>2. input[u].end \in Nat /\ From(u) \in Nat /\ Len(Rest) \in Nat /\ reader.at \in Nat
  BY <1>1, TokenFacts, FromFacts, RestFacts DEF Types, Reader
<1>3. Ahead(u) = input[u].end - From(u) + 1  BY DEF Ahead
<1>4. After(u).at = reader.at + Ahead(u)  BY DEF After
<1> QED  BY <1>1, <1>2, <1>3, <1>4

(* What the reader becomes is a reader.                                    *)
LEMMA AfterType == Types => \A u \in DOMAIN input : Reads(u) => After(u) \in Reader
<1> SUFFICES ASSUME Types, NEW u \in DOMAIN input, Reads(u) PROVE After(u) \in Reader
  OBVIOUS
<1>1. AtToken(u) /\ input[u].end - From(u) < Len(Rest)  BY ReadFacts
<1>2. /\ u \in 1..Len(input) /\ input[u].end \in Nat /\ From(u) \in Nat
      /\ From(u) <= input[u].end
  BY <1>1, TokenFacts, FromFacts
<1>3. reader.at \in Nat /\ reader.state.open \in Int /\ Len(buffer) \in Nat
      /\ reader.at <= Len(buffer)
  BY DEF Types, Reader, ReaderState
<1>4. After(u).at \in 0..Len(buffer)
  <2>1. After(u).at = reader.at + input[u].end - From(u) + 1  BY ReadFacts
  <2>2. Len(Rest) = Len(buffer) - reader.at  BY RestFacts
  <2> QED  BY <1>1, <1>2, <1>3, <2>1, <2>2
<1>5. After(u).state \in ReaderState  BY <1>2, <1>3, TokenFacts DEF After, ReaderState
<1> QED  BY <1>4, <1>5 DEF After, Reader

(* What a stalled reader may have done: nothing, consumed all it has, or   *)
(* consumed the white space before a token.                                *)
LEMMA StalledCases ==
    ASSUME NEW r \in Stalled
    PROVE  \/ r = reader
           \/ Rest # <<>> /\ Blank /\ r = Consumed(Len(Rest), TextDelivered)
           \/ \E u \in DOMAIN input : \E n \in 1..Min2(Len(Rest), input[u].text - From(u)) :
                 AtToken(u) /\ r = Consumed(n, From(u) + n - 1)
<1>1. CASE Rest = <<>>  BY <1>1, Zenon DEF Stalled
<1>2. CASE Rest # <<>> /\ Blank  BY <1>2, Zenon DEF Stalled
<1>3. CASE Rest # <<>> /\ ~Blank
  <2>1. r \in {reader} \cup
              UNION {{Consumed(n, From(u) + n - 1) :
                         n \in 1..Min2(Len(Rest), input[u].text - From(u))} :
                     u \in {v \in DOMAIN input : AtToken(v)}}
    BY <1>3, Zenon DEF Stalled
  <2> QED  BY <2>1, Zenon
<1> QED  BY <1>1, <1>2, <1>3

(* Nor does Read take it out of its bounds when it returns FALSE.          *)
LEMMA StalledType ==
    ASSUME Types, pc # "new", NEW r \in Stalled
    PROVE  r \in Reader
<1>0. /\ reader.at \in Nat /\ Len(buffer) \in Nat /\ reader.state \in ReaderState
      /\ Len(Rest) = Len(buffer) - reader.at /\ Len(Rest) \in Nat
  BY RestFacts DEF Types, Reader
<1>1. ASSUME NEW n \in 0..Len(Rest), NEW byte \in Nat
      PROVE  Consumed(n, byte) \in Reader
  <2>1. \A st \in ReaderState, x \in Nat : [st EXCEPT !.mid = x] \in ReaderState
    BY DEF ReaderState
  <2>2. reader.at + n \in 0..Len(buffer)  BY <1>0
  <2> QED  BY <1>0, <2>1, <2>2 DEF Reader, Consumed
<1>2. CASE r = reader  BY <1>2 DEF Types
<1>3. CASE r = Consumed(Len(Rest), TextDelivered)
  <2>1. BomBytes <= delivered /\ delivered \in Nat /\ BomBytes \in Nat
    BY StreamAssumption DEF Types, BomBytes, Bytes
  <2>2. TextDelivered \in Nat  BY <2>1 DEF TextDelivered
  <2>3. Len(Rest) \in 0..Len(Rest)  BY <1>0
  <2> QED  BY <1>1, <1>3, <2>2, <2>3
<1>4. ASSUME NEW u \in DOMAIN input, AtToken(u),
             NEW n \in 1..Min2(Len(Rest), input[u].text - From(u)),
             r = Consumed(n, From(u) + n - 1)
      PROVE  r \in Reader
  <2>1. /\ From(u) \in Nat /\ From(u) >= 1 /\ From(u) <= input[u].text /\ input[u].text \in Nat
    BY <1>4, TokenFacts, FromFacts
  <2>2. n \in Nat /\ n >= 1 /\ n <= Len(Rest)  BY <1>0, <2>1 DEF Min2
  <2>3. n \in 0..Len(Rest) /\ From(u) + n - 1 \in Nat  BY <1>0, <2>1, <2>2
  <2> QED  BY <1>1, <1>4, <2>3
<1> QED  BY <1>2, <1>3, <1>4, StalledCases

(* How far a known state is into the text: behind the last token, or in    *)
(* the next one.                                                           *)
LEMMA PositionFacts ==
    ASSUME Types, NEW st \in ReaderState, StateKnown(st)
    PROVE  /\ Position(st) \in Nat
           /\ st.last = Len(input) => Position(st) >= LastByte(input)
           /\ st.mid = 0 => Position(st) = IF st.last = 0 THEN 0 ELSE input[st.last].end
           /\ st.mid # 0 => Position(st) = st.mid
           /\ st.last < Len(input) => /\ input[st.last + 1].start <= Position(st) + 1
                                      /\ Position(st) + 1 <= input[st.last + 1].text
<1>1. st.last \in 0..Len(input) /\ st.mid \in Nat  BY DEF ReaderState
<1>2. ASSUME st.last = Len(input) PROVE Position(st) >= LastByte(input)
  <2>1. CASE st.mid # 0
    <3>1. ~(st.last < Len(input))  BY <1>2, TokenFacts
    <3>2. LastByte(input) <= st.mid  BY <2>1, <3>1 DEF StateKnown
    <3>3. Position(st) = st.mid  BY <2>1 DEF Position
    <3> QED  BY <1>1, <3>2, <3>3, LastByteFacts
  <2>2. CASE st.mid = 0
    <3>1. Position(st) = LastByte(input)
      BY <1>1, <1>2, <2>2, TokenFacts, LastByteFacts DEF Position, LastByte
    <3> QED  BY <3>1, LastByteFacts
  <2> QED  BY <2>1, <2>2
<1>3. Position(st) \in Nat  BY <1>1, TokenFacts DEF Position
<1>4. st.mid = 0 => Position(st) = IF st.last = 0 THEN 0 ELSE input[st.last].end
  BY DEF Position
<1>5. st.mid # 0 => Position(st) = st.mid  BY DEF Position
<1>6. ASSUME st.last < Len(input)
      PROVE  /\ input[st.last + 1].start <= Position(st) + 1
             /\ Position(st) + 1 <= input[st.last + 1].text
  <2>1. st.last + 1 \in 1..Len(input)  BY <1>1, <1>6, TokenFacts
  <2>2. CASE st.mid = 0
    <3>1. input[st.last + 1].start = Position(st) + 1
      BY <1>1, <1>4, <2>1, <2>2, TokenFacts, SMTT(30)
    <3> QED  BY <1>3, <2>1, <3>1, TokenFacts
  <2>3. CASE st.mid # 0  BY <1>1, <1>5, <2>1, <2>3, TokenFacts DEF StateKnown
  <2> QED  BY <2>2, <2>3
<1> QED  BY <1>2, <1>3, <1>4, <1>5, <1>6

(* Once the stream is over, every byte of a whole text has been taken.     *)
LEMMA AllDelivered ==
    ASSUME Types, WholeText, delivered = Bytes
    PROVE  \A v \in 1..Len(input) : input[v].end <= TextDelivered
<1> SUFFICES ASSUME NEW v \in 1..Len(input) PROVE input[v].end <= TextDelivered
  OBVIOUS
<1>1. TextDelivered = size  BY StreamAssumption DEF Types, TextDelivered, Bytes, BomBytes
<1>2. size \in Nat /\ size >= LastByte(input)  BY DEF Types, WholeText
<1>3. input[v].end <= LastByte(input) /\ LastByte(input) \in Nat /\ input[v].end \in Nat
  BY LastByteFacts, TokenFacts
<1> QED  BY <1>1, <1>2, <1>3

(* In a whole text a reader that is at a token is at the next one, right   *)
(* behind its position, and that token has not been given up for lost: its *)
(* first byte is in the buffer, or the stream will still give it.          *)
LEMMA AtNext ==
    ASSUME Types, WholeText, Holds(reader), NEW u \in DOMAIN input, AtToken(u)
    PROVE  /\ From(u) = Position(reader.state) + 1
           /\ u = reader.state.last + 1
           /\ delivered = Bytes => input[u].end <= TextDelivered
<1> DEFINE st == reader.state
           pos == Position(st)
           last == st.last
<1>1. /\ Len(Rest) > 0 /\ From(u) \in Nat /\ Rest[1] = From(u) /\ (st.open > 0 \/ last = 0)
      /\ input[u].start <= From(u) /\ From(u) <= input[u].text
  BY FromFacts
<1>2. st \in ReaderState /\ StateKnown(st)  BY DEF Types, Reader, Holds
<1>3. last \in 0..Len(input) /\ u \in 1..Len(input) /\ pos \in Nat /\ Len(input) \in Nat
  BY <1>2, TokenFacts, PositionFacts DEF ReaderState
<1>4. last < Len(input)
  <2>1. ASSUME last = Len(input) PROVE FALSE
    <3>1. input # <<>> /\ last # 0  BY <1>3, <2>1, TokenFacts
    <3>2. st.open = 0  BY <1>2, <2>1, <3>1 DEF StateKnown, WholeText
    <3> QED  BY <1>1, <3>1, <3>2
  <2> QED  BY <1>3, <2>1
<1>5. last + 1 \in 1..Len(input)  BY <1>3, <1>4
<1>6. /\ delivered \in Int /\ BomBytes \in Nat /\ size \in Nat /\ Bytes = size + BomBytes
      /\ TextDelivered = delivered - BomBytes
  BY StreamAssumption DEF Types, BomBytes, Bytes, TextDelivered
<1>7. delivered = Bytes => \A v \in 1..Len(input) : input[v].end <= TextDelivered
  BY <1>5, AllDelivered
<1>8. TextDelivered - pos >= 1
  <2>1. CASE delivered = Bytes
    <3>1. pos + 1 <= input[last + 1].text  BY <1>2, <1>4, PositionFacts
    <3>2. input[last + 1].text <= input[last + 1].end  BY <1>5, TokenFacts
    <3>3. input[last + 1].text \in Nat /\ input[last + 1].end \in Nat  BY <1>5, TokenFacts
    <3>4. input[last + 1].end <= TextDelivered  BY <1>5, <1>7, <2>1
    <3> QED  BY <1>3, <1>6, <3>1, <3>2, <3>3, <3>4
  <2>2. CASE TextDelivered - pos = Len(buffer) - reader.at
    BY <1>1, <2>2, RestFacts
  <2> QED  BY <2>1, <2>2 DEF Holds
<1>9. From(u) = pos + 1
  <2>1. buffer[reader.at + 1] = pos + 1  BY <1>3, <1>6, <1>8 DEF Holds
  <2>2. Rest[1] = buffer[reader.at + 1]  BY <1>1, RestFacts
  <2> QED  BY <1>1, <2>1, <2>2
<1>10. u = last + 1
  <2>1. input[last + 1].start <= pos + 1 /\ pos + 1 <= input[last + 1].text
    BY <1>2, <1>4, PositionFacts
  <2>2. /\ input[u].start \in Nat /\ input[u].text \in Nat /\ input[u].end \in Nat
        /\ input[u].text <= input[u].end
    BY <1>3, TokenFacts
  <2>3. /\ input[last + 1].start \in Nat /\ input[last + 1].text \in Nat
        /\ input[last + 1].end \in Nat /\ input[last + 1].text <= input[last + 1].end
    BY <1>5, TokenFacts
  <2>4. ~(u < last + 1)
    <3>1. u < last + 1 => input[u].end < input[last + 1].start  BY <1>3, <1>5, TokenFacts
    <3> QED  BY <1>1, <1>3, <1>9, <2>1, <2>2, <2>3, <3>1, SMTT(30)
  <2>5. ~(last + 1 < u)
    <3>1. last + 1 < u => input[last + 1].end < input[u].start  BY <1>3, <1>5, TokenFacts
    <3>2. input[u].start <= pos + 1  BY <1>1, <1>9
    <3> HIDE DEF pos
    <3> QED  BY <1>3, <2>1, <2>2, <2>3, <3>1, <3>2
  <2> QED  BY <1>3, <2>4, <2>5
<1> QED  BY <1>3, <1>7, <1>9, <1>10

(* What has been delivered, in numbers.                                    *)
LEMMA DeliveryFacts ==
    ASSUME Types
    PROVE  /\ delivered \in Nat /\ BomBytes \in Nat /\ size \in Nat /\ delivered <= Bytes
           /\ Bytes = size + BomBytes /\ TextDelivered = delivered - BomBytes
           /\ BomLength \in Nat /\ BomLength >= 1
           /\ Len(buffer) \in Nat /\ DOMAIN buffer = 1..Len(buffer)
BY StreamAssumption DEF Types, BomBytes, Bytes, TextDelivered

(* The unread bytes behind a token that was read are where they were.      *)
LEMMA AfterHolds ==
    ASSUME Types, WholeText, Holds(reader), NEW u \in DOMAIN input, Reads(u)
    PROVE  Holds(After(u))
<1> DEFINE pos == Position(reader.state)
           fin == input[u].end
           next == After(u)
<1>0. /\ TextDelivered - pos >= 0
      /\ delivered = Bytes \/ TextDelivered - pos = Len(buffer) - reader.at
      /\ \A j \in 1..TextDelivered - pos :
            reader.at + j \in DOMAIN buffer /\ buffer[reader.at + j] = pos + j
      /\ StateKnown(reader.state)
  BY DEF Holds
<1>s. reader.state \in ReaderState /\ reader.at \in Nat  BY DEF Types, Reader
<1>p. pos \in Nat  BY <1>0, <1>s, PositionFacts
<1>1. AtToken(u) /\ fin - From(u) < Len(Rest)  BY ReadFacts
<1>2. /\ From(u) = pos + 1 /\ u = reader.state.last + 1
      /\ delivered = Bytes => fin <= TextDelivered
  BY <1>1, AtNext
<1>3. u \in 1..Len(input) /\ fin \in Nat /\ From(u) <= fin /\ From(u) \in Nat /\ From(u) >= 1
  BY <1>1, TokenFacts, FromFacts
<1>4. pos \in Int /\ pos < fin
  <2> HIDE DEF pos, fin
  <2> QED  BY <1>2, <1>3, <1>p
<1>5. reader.at \in Nat /\ Len(Rest) = Len(buffer) - reader.at
  BY <1>s, RestFacts
<1>6. next.at = reader.at + (fin - pos)
  <2>1. next.at = reader.at + fin - From(u) + 1  BY ReadFacts
  <2> HIDE DEF pos, fin, next
  <2> QED  BY <1>2, <1>3, <1>4, <1>5, <2>1
<1>7. Position(next.state) = fin  BY <1>3 DEF After, Position
<1>8. StateKnown(next.state)
  <2>1. reader.state.last \in Nat  BY <1>s, TokenFacts DEF ReaderState
  <2>2. u \in Nat \ {0} /\ reader.state.last = u - 1 /\ reader.state.open = Open(u - 1)
    BY <1>0, <1>2, <2>1 DEF StateKnown
  <2>3. next.state.last = u /\ next.state.mid = 0
    BY DEF After
  <2>4. next.state.open = Open(u)  BY <2>2, OpenStep DEF After
  <2> QED  BY <2>3, <2>4 DEF StateKnown
<1>9. TextDelivered \in Int /\ Len(buffer) \in Nat  BY DeliveryFacts
<1> HIDE DEF pos, fin, next
<1>10. TextDelivered - fin >= 0
  <2>1. CASE delivered = Bytes  BY <1>2, <1>3, <1>9, <2>1
  <2>2. CASE TextDelivered - pos = Len(buffer) - reader.at
    BY <1>1, <1>2, <1>3, <1>4, <1>5, <1>9, <2>2
  <2> QED  BY <1>0, <2>1, <2>2
<1>11. delivered = Bytes \/ TextDelivered - fin = Len(buffer) - next.at
  <2>1. CASE TextDelivered - pos = Len(buffer) - reader.at
    BY <1>3, <1>4, <1>5, <1>6, <1>9, <2>1
  <2> QED  BY <1>0, <2>1
<1>12. ASSUME NEW j \in 1..TextDelivered - fin
       PROVE  next.at + j \in DOMAIN buffer /\ buffer[next.at + j] = fin + j
  <2>1. fin - pos + j \in 1..TextDelivered - pos  BY <1>3, <1>4, <1>9
  <2>2. /\ reader.at + (fin - pos + j) \in DOMAIN buffer
        /\ buffer[reader.at + (fin - pos + j)] = pos + (fin - pos + j)
    BY <1>0, <2>1
  <2>3. reader.at + (fin - pos + j) = next.at + j /\ pos + (fin - pos + j) = fin + j
    BY <1>3, <1>4, <1>5, <1>6, <1>9
  <2> QED  BY <2>2, <2>3
<1> QED  BY <1>7, <1>8, <1>10, <1>11, <1>12 DEF Holds, next

(* When all that the buffer has is white space outside the root value, the *)
(* reader has consumed it and nothing is left unread.                      *)
LEMMA BlankHolds ==
    ASSUME Types, WholeText, Holds(reader), Rest # <<>>, Blank, BomBytes <= delivered
    PROVE  Holds(Consumed(Len(Rest), TextDelivered))
<1> DEFINE st == reader.state
           pos == Position(st)
           unread == TextDelivered - pos
           next == Consumed(Len(Rest), TextDelivered)
<1>1. /\ unread >= 0
      /\ delivered = Bytes \/ unread = Len(buffer) - reader.at
      /\ \A j \in 1..unread :
            reader.at + j \in DOMAIN buffer /\ buffer[reader.at + j] = pos + j
      /\ StateKnown(st)
  BY DEF Holds
<1>2. /\ st \in ReaderState /\ reader.at \in Nat /\ pos \in Nat
      /\ Len(buffer) \in Nat /\ DOMAIN buffer = 1..Len(buffer)
      /\ TextDelivered \in Nat /\ st.last \in 0..Len(input) /\ Len(input) \in Nat
  <2>1. st \in ReaderState /\ reader.at \in Nat  BY DEF Types, Reader
  <2>2. TextDelivered \in Nat  BY DeliveryFacts
  <2> QED  BY <1>1, <2>1, <2>2, PositionFacts, DeliveryFacts, TokenFacts DEF ReaderState
<1>3. Len(Rest) = Len(buffer) - reader.at /\ Len(Rest) \in Nat /\ Len(Rest) > 0  BY RestFacts
<1>4. ASSUME NEW j \in 1..unread PROVE WhiteSpace(pos + j)
  <2>1. reader.at + j \in DOMAIN buffer /\ buffer[reader.at + j] = pos + j  BY <1>1
  <2>2. j \in 1..Len(Rest)  BY <1>2, <1>3, <2>1
  <2>3. Rest[j] = pos + j  BY <2>1, <2>2, RestFacts
  <2>4. Rest \in Seq(Int)  BY SubSeqProperties DEF Rest, Types, Reader
  <2>5. j \in DOMAIN Rest  BY <2>2, <2>4
  <2>6. WhiteSpace(Rest[j])  BY <2>5 DEF Blank
  <2> QED  BY <2>3, <2>6
<1>5. /\ next.state.last = st.last /\ next.state.open = st.open
      /\ next.state.mid = TextDelivered /\ next.at = Len(buffer)
  BY <1>2, <1>3 DEF Consumed, ReaderState
<1>6. Position(next.state) = TextDelivered
  <2>1. CASE TextDelivered = 0
    <3>1. pos = 0  BY <1>1, <1>2, <2>1
    <3>2. st.last = 0
      <4>1. CASE st.mid # 0  BY <1>2, <3>1, <4>1 DEF Position
      <4>2. CASE st.mid = 0 /\ st.last # 0
        <5>1. st.last \in 1..Len(input) /\ input[st.last].end = 0
          BY <1>2, <3>1, <4>2 DEF Position
        <5>2. LastByte(input) \in Nat /\ input[1].start = 1 /\ 1 \in 1..Len(input)
          BY <1>2, <5>1, TokenFacts, LastByteFacts
        <5>3. /\ input[st.last].start <= input[st.last].text
              /\ input[st.last].text <= input[st.last].end
              /\ input[st.last].start \in Nat /\ input[st.last].text \in Nat
          BY <5>1, TokenFacts
        <5>4. st.last # 1  BY <5>1, <5>2, <5>3
        <5>5. 1 < st.last  BY <1>2, <5>1, <5>4
        <5>6. input[1].end < input[st.last].start  BY <5>1, <5>2, <5>5, TokenFacts
        <5>7. input[1].end \in Nat  BY <5>2, TokenFacts
        <5> QED  BY <5>1, <5>3, <5>6, <5>7
      <4> QED  BY <4>1, <4>2
    <3> QED  BY <1>5, <2>1, <3>2 DEF Position
  <2>2. CASE TextDelivered # 0  BY <1>5, <2>2 DEF Position
  <2> QED  BY <2>1, <2>2
<1>7. StateKnown(next.state)
  <2>1. next.state.open = Open(next.state.last)  BY <1>1, <1>5 DEF StateKnown
  <2>2. ASSUME st.last < Len(input)
        PROVE  /\ input[st.last + 1].start <= TextDelivered
               /\ TextDelivered < input[st.last + 1].text
    <3> DEFINE u == st.last + 1
    <3>1. u \in 1..Len(input)  BY <1>2, <2>2
    <3>2. /\ input[u].start \in Nat /\ input[u].text \in Nat /\ input[u].end \in Nat
          /\ input[u].text <= input[u].end
      BY <3>1, TokenFacts
    <3>3. input[u].start <= pos + 1 /\ pos + 1 <= input[u].text
      BY <1>1, <1>2, <2>2, PositionFacts
    <3> HIDE DEF u
    <3>4. unread >= 1
      <4>1. CASE delivered = Bytes
        <5>1. input[u].end <= TextDelivered  BY <3>1, <4>1, AllDelivered
        <5> QED  BY <1>2, <3>2, <3>3, <5>1
      <4>2. CASE unread = Len(buffer) - reader.at  BY <1>2, <1>3, <4>2
      <4> QED  BY <1>1, <4>1, <4>2
    <3>5. TextDelivered < input[u].text
      <4> SUFFICES ASSUME TextDelivered >= input[u].text PROVE FALSE  BY <1>2, <3>2
      <4>1. input[u].text - pos \in 1..unread /\ pos + (input[u].text - pos) = input[u].text
        BY <1>2, <3>2, <3>3
      <4>2. WhiteSpace(pos + (input[u].text - pos))  BY ONLY <1>4, <4>1
      <4>3. input[u].text \in input[u].text..input[u].end  BY <3>2
      <4>4. ~WhiteSpace(input[u].text)  BY <3>1, <4>3, TokenIsNotBlank
      <4> QED  BY <4>1, <4>2, <4>4
    <3>6. input[u].start <= TextDelivered  BY <1>2, <3>2, <3>3, <3>4
    <3> QED  BY <3>5, <3>6 DEF u
  <2>3. ASSUME ~(st.last < Len(input)) PROVE LastByte(input) <= TextDelivered
    <3>1. pos >= LastByte(input)  BY <1>1, <1>2, <2>3, PositionFacts
    <3> QED  BY <1>1, <1>2, <3>1, LastByteFacts
  <2> QED  BY <1>5, <2>1, <2>2, <2>3 DEF StateKnown
<1>8. TextDelivered - Position(next.state) = 0  BY <1>2, <1>6
<1>9. delivered = Bytes \/ TextDelivered - Position(next.state) = Len(buffer) - next.at
  BY <1>2, <1>5, <1>8
<1> HIDE DEF next
<1>10. \A j \in 1..TextDelivered - Position(next.state) :
          /\ next.at + j \in DOMAIN buffer
          /\ buffer[next.at + j] = Position(next.state) + j
  BY <1>8
<1>11. Holds(next)  BY <1>7, <1>8, <1>9, <1>10 DEF Holds
<1> QED  BY <1>11 DEF next

(* The unread bytes are also where they were behind the white space that a *)
(* stalled reader has consumed.                                            *)
LEMMA StalledHolds ==
    ASSUME Types, WholeText, Holds(reader), BomBytes <= delivered, NEW r \in Stalled
    PROVE  Holds(r)
<1> DEFINE pos == Position(reader.state)
<1>0. /\ TextDelivered - pos >= 0
      /\ delivered = Bytes \/ TextDelivered - pos = Len(buffer) - reader.at
      /\ \A j \in 1..TextDelivered - pos :
            reader.at + j \in DOMAIN buffer /\ buffer[reader.at + j] = pos + j
      /\ StateKnown(reader.state)
  BY DEF Holds
<1>s. reader.state \in ReaderState /\ reader.at \in Nat  BY DEF Types, Reader
<1>p. pos \in Nat  BY <1>0, <1>s, PositionFacts
<1>1. ASSUME NEW u \in DOMAIN input, AtToken(u),
             NEW n \in 1..Min2(Len(Rest), input[u].text - From(u)),
             r = Consumed(n, From(u) + n - 1)
      PROVE  Holds(r)
  <2>1. /\ From(u) = pos + 1 /\ u = reader.state.last + 1
        /\ delivered = Bytes => input[u].end <= TextDelivered
    BY <1>1, AtNext
  <2>2. /\ u \in 1..Len(input) /\ Len(input) \in Nat
        /\ input[u].start \in Nat /\ input[u].text \in Nat /\ input[u].end \in Nat
        /\ input[u].text <= input[u].end
        /\ From(u) \in Nat /\ From(u) >= 1 /\ input[u].start <= From(u)
        /\ From(u) <= input[u].text
    BY <1>1, TokenFacts, FromFacts
  <2>3. reader.at \in Nat /\ Len(Rest) = Len(buffer) - reader.at /\ Len(Rest) \in Nat
    BY <1>s, RestFacts
  <2>4. n \in Nat /\ n >= 1 /\ n <= Len(Rest) /\ From(u) + n <= input[u].text
    BY <2>2, <2>3 DEF Min2
  <2>5. pos \in Int  BY <1>p
  <2>6. reader.state \in [last : 0..Len(input), open : Int, mid : Nat]
    BY <1>s DEF ReaderState
  <2> HIDE DEF pos
  <2>7. /\ r.state.last = reader.state.last /\ r.state.open = reader.state.open
        /\ r.state.mid = pos + n /\ r.at = reader.at + n
    <3>1. From(u) + n - 1 = pos + n  BY <2>1, <2>4, <2>5
    <3> QED  BY <1>1, <2>6, <3>1 DEF Consumed
  <2>8. Position(r.state) = pos + n
    <3>1. r.state.mid # 0  BY <1>p, <2>4, <2>7
    <3> QED  BY <2>7, <3>1 DEF Position
  <2>9. StateKnown(r.state)
    <3>1. r.state.open = Open(r.state.last)  BY <1>0, <2>7 DEF StateKnown
    <3>2. r.state.last < Len(input)  BY <2>1, <2>2, <2>6, <2>7
    <3>3. input[r.state.last + 1].start <= r.state.mid /\ r.state.mid < input[r.state.last + 1].text
      BY <2>1, <2>2, <2>4, <2>5, <2>7
    <3> QED  BY <3>1, <3>2, <3>3 DEF StateKnown
  <2>10. TextDelivered \in Int /\ Len(buffer) \in Nat  BY DeliveryFacts
  <2>11. TextDelivered - (pos + n) >= 0
    <3>1. CASE delivered = Bytes
      <4>1. input[u].end <= TextDelivered  BY <2>1, <3>1
      <4>2. pos + 1 + n <= input[u].text  BY <2>1, <2>4
      <4>3. pos + n <= input[u].end  BY <4>2, <2>2, <2>4, <2>5
      <4> QED  BY <4>1, <4>3, <2>2, <2>4, <2>5, <2>10
    <3>2. CASE TextDelivered - pos = Len(buffer) - reader.at
      BY <2>3, <2>4, <2>5, <2>10, <3>2
    <3> QED  BY <1>0, <3>1, <3>2
  <2>12. delivered = Bytes \/ TextDelivered - (pos + n) = Len(buffer) - r.at
    <3>1. CASE TextDelivered - pos = Len(buffer) - reader.at
      <4>1. r.at = reader.at + n  BY <2>7
      <4> QED  BY <2>3, <2>4, <2>5, <2>10, <3>1, <4>1
    <3> QED  BY <1>0, <3>1
  <2>13. ASSUME NEW j \in 1..TextDelivered - (pos + n)
         PROVE  r.at + j \in DOMAIN buffer /\ buffer[r.at + j] = pos + n + j
    <3>1. n + j \in 1..TextDelivered - pos  BY <2>4, <2>5, <2>10
    <3>2. reader.at + (n + j) \in DOMAIN buffer /\ buffer[reader.at + (n + j)] = pos + (n + j)
      BY <1>0, <3>1
    <3>3. reader.at + (n + j) = r.at + j /\ pos + (n + j) = pos + n + j
      BY <2>3, <2>4, <2>5, <2>7, <2>10
    <3> QED  BY <3>2, <3>3
  <2> QED  BY <2>8, <2>9, <2>11, <2>12, <2>13 DEF Holds
<1>2. CASE r = reader  BY <1>2
<1>3. CASE Rest # <<>> /\ Blank /\ r = Consumed(Len(Rest), TextDelivered)  BY <1>3, BlankHolds
<1> QED  BY <1>1, <1>2, <1>3, StalledCases

(* A buffer that was moved to the reader's place and filled up from the    *)
(* stream holds what is unread.                                            *)
LEMMA Refilled ==
    ASSUME Types, Types', UNCHANGED streamVars, NEW r \in Reader, Holds(r),
           NEW left, NEW count, left = Len(buffer) - r.at, left <= Len(buffer)',
           BomBytes <= delivered,
           \A j \in 1..left : buffer'[j] = buffer[j + r.at],
           \A j \in left + 1..left + count : buffer'[j] = StreamByte(delivered + j - left),
           count = ReadBytes(delivered, Len(buffer)' - left), delivered' = delivered + count,
           cached' = r.state
    PROVE  Holds(NewReader(cached))'
<1> DEFINE pos == Position(r.state)
           n == Len(buffer)'
<1>1. /\ Len(buffer) \in Nat /\ DOMAIN buffer = 1..Len(buffer)
      /\ delivered \in Nat /\ delivered <= Bytes /\ Bytes \in Nat /\ BomBytes \in Nat
      /\ TextDelivered = delivered - BomBytes /\ BomLength \in Nat
  BY DeliveryFacts
<1>2. n \in Nat /\ DOMAIN buffer' = 1..n  BY DEF Types
<1>3. UNCHANGED <<Bytes, BomBytes>> /\ TextDelivered' = TextDelivered + count
  <2>1. UNCHANGED <<Bytes, BomBytes>>  BY DEF streamVars, Bytes, BomBytes
  <2>2. count \in Int  BY <1>1, <1>2 DEF ReadBytes, Min2, Reader
  <2> QED  BY <1>1, <2>1, <2>2 DEF TextDelivered
<1>4. r.at \in 0..Len(buffer) /\ left \in Nat /\ r.state \in ReaderState
  BY <1>1 DEF Reader
<1>5. /\ count \in Nat /\ left + count <= n
      /\ delivered + count = Bytes \/ left + count = n
  <2>1. n - left \in Nat /\ Bytes - delivered \in Nat  BY <1>1, <1>2, <1>4, SMTT(30)
  <2>2. count = n - left \/ (count = Bytes - delivered /\ count <= n - left)
    BY <2>1 DEF ReadBytes, Min2
  <2> HIDE DEF n
  <2>3. CASE count = n - left  BY <1>2, <1>4, <2>1, <2>3
  <2>4. CASE count = Bytes - delivered /\ count <= n - left
    <3>1. delivered \in Nat /\ Bytes \in Nat  BY <1>1
    <3>2. count \in Nat /\ delivered + count = Bytes  BY <2>1, <2>4, <3>1
    <3>3. left + count <= n  BY <1>2, <1>4, <2>4, <3>2
    <3> QED  BY <3>2, <3>3
  <2> QED  BY <2>2, <2>3, <2>4
<1>6. pos \in Nat /\ StateKnown(r.state)  BY <1>4, PositionFacts DEF Holds
<1>7. Position(cached)' = pos  BY DEF Position, streamVars
<1>8. StateKnown(cached)'  BY <1>6 DEF StateKnown, Open, streamVars
<1>9. TextDelivered - pos >= 0 /\ (delivered = Bytes \/ TextDelivered - pos = left)
  BY DEF Holds
<1>10. count = 0 \/ TextDelivered - pos = left
  BY <1>1, <1>5, <1>9 DEF ReadBytes, Min2
<1>11. TextDelivered' - pos >= 0 /\ (delivered' = Bytes' \/ TextDelivered' - pos = n)
  BY <1>1, <1>2, <1>3, <1>4, <1>5, <1>6, <1>9, <1>10, SMTT(30)
<1>12. TextDelivered - pos <= left
  <2>1. CASE TextDelivered - pos = left  BY <1>1, <1>4, <2>1
  <2>2. CASE delivered = Bytes
    <3>1. CASE TextDelivered - pos >= 1
      <4>1. r.at + (TextDelivered - pos) \in DOMAIN buffer
        BY <1>1, <1>6, <3>1 DEF Holds
      <4> QED  BY <1>1, <1>4, <1>6, <4>1
    <3>2. CASE TextDelivered - pos = 0  BY <1>4, <3>2
    <3> QED  BY <1>1, <1>6, <1>9, <3>1, <3>2
  <2> QED  BY <1>9, <2>1, <2>2
<1>13. ASSUME NEW j \in 1..TextDelivered' - pos
       PROVE  j \in 1..n /\ buffer'[j] = pos + j
  <2>1. CASE j <= TextDelivered - pos
    <3>1. r.at + j \in DOMAIN buffer /\ buffer[r.at + j] = pos + j
      BY <1>1, <1>6, <2>1 DEF Holds
    <3>2. j \in 1..left /\ r.at + j = j + r.at  BY <1>1, <1>4, <1>6, <1>12, <2>1
    <3> QED  BY <1>2, <1>4, <1>5, <3>1, <3>2
  <2>2. CASE j > TextDelivered - pos
    <3>1. TextDelivered - pos = left /\ count > 0
      BY <1>1, <1>3, <1>5, <1>6, <1>10, <2>2
    <3>2. j \in left + 1..left + count  BY <1>1, <1>3, <1>4, <1>5, <1>6, <2>2, <3>1
    <3>a. j \in Int /\ j >= left + 1
      <4> HIDE DEF pos, n
      <4> QED  BY <1>4, <1>5, <3>2
    <3>3. buffer'[j] = StreamByte(delivered + j - left)  BY <3>2
    <3>4. StreamByte(delivered + j - left) = delivered + j - left - BomBytes
      <4>1. delivered + j - left \in Int /\ delivered + j - left > BomBytes
        <5> HIDE DEF pos, n
        <5>1. delivered \in Nat /\ left \in Nat /\ BomBytes \in Nat  BY <1>1, <1>4
        <5> QED  BY <3>a, <5>1
      <4> QED  BY <1>1, <4>1 DEF StreamByte, BomBytes
    <3>5. delivered + j - left - BomBytes = pos + j
      <4> HIDE DEF pos, n
      <4>1. TextDelivered = delivered - BomBytes /\ pos \in Nat /\ left \in Nat  BY <1>1, <1>4, <1>6
      <4>2. delivered \in Nat /\ BomBytes \in Nat  BY <1>1
      <4> QED  BY <3>1, <3>a, <4>1, <4>2, SMTT(30)
    <3> QED  BY <1>2, <1>4, <1>5, <3>2, <3>3, <3>4, <3>5
  <2> QED  BY <1>1, <1>3, <1>5, <1>6, <2>1, <2>2
<1>14. NewReader(cached)'.state = cached' /\ NewReader(cached)'.at = 0  BY DEF NewReader
<1> HIDE DEF pos, n
<1> QED  BY <1>2, <1>7, <1>8, <1>11, <1>13, <1>14 DEF Holds, NewReader, n
----------------------------------------------------------------------------
(* A step that leaves the stream and the buffer alone leaves what a reader *)
(* holds.                                                                  *)
LEMMA HoldsStill ==
    ASSUME UNCHANGED <<streamVars, delivered, buffer>>, NEW r, Holds(r)
    PROVE  Holds(r)'
BY DEF Holds, streamVars, TextDelivered, Bytes, BomBytes, Position, StateKnown, Open

(* A text is whole as long as it stays.                                    *)
LEMMA TextStill ==
    ASSUME UNCHANGED streamVars
    PROVE  (WholeText' <=> WholeText) /\ UNCHANGED <<Bytes, BomBytes>> /\ ReaderState' = ReaderState
BY DEF streamVars, WholeText, Open, Bytes, BomBytes, ReaderState

(* A buffer of the same length has not grown.                              *)
LEMMA GrowthStill ==
    ASSUME UNCHANGED input, Len(buffer)' = Len(buffer), GrowsForOneToken
    PROVE  GrowsForOneToken'
BY DEF GrowsForOneToken

(* The buffer is new, and nothing has been read.                           *)
LEMMA InitInv == Init => IInv
<1> SUFFICES ASSUME Init PROVE IInv  OBVIOUS
<1> USE StreamAssumption DEF Init
<1>1. buffer \in Seq(Int) /\ Len(buffer) = BufferSize /\ BufferSize \in Nat
  <2>1. buffer \in [1..BufferSize -> Int]  OBVIOUS
  <2> QED  BY <2>1
<1>2. /\ input \in Seq(Token) /\ LaidOut(input)
      /\ size \in Nat /\ bom \in BOOLEAN /\ short \in BOOLEAN
  OBVIOUS
<1>3. delivered \in 0..Bytes  BY <1>2 DEF Bytes, BomBytes
<1>4. cached \in ReaderState /\ reader \in Reader
  BY <1>1, <1>2 DEF Fresh, NewReader, ReaderState, Reader
<1>5. Types  BY <1>1, <1>2, <1>3, <1>4 DEF Types
<1>6. GrowsForOneToken  BY <1>1 DEF GrowsForOneToken
<1> QED  BY <1>5, <1>6 DEF IInv

(* The next call begins with the cached state.                             *)
LEMMA ReadNextItemInv == IInv /\ ReadNextItem => IInv'
<1> SUFFICES ASSUME IInv, ReadNextItem PROVE IInv'  OBVIOUS
<1>1. /\ pc = "idle" /\ pc' = "search" /\ reader' = NewReader(cached)
      /\ UNCHANGED <<streamVars, delivered, buffer, cached>>
  BY DEF ReadNextItem
<1>2. Types'
  <2>1. reader' \in Reader  BY <1>1, DeliveryFacts DEF IInv, Types, NewReader, Reader
  <2>2. UNCHANGED <<Bytes, BomBytes, ReaderState, Reader>>
    BY <1>1, TextStill DEF Reader, ReaderState, streamVars
  <2> QED  BY <1>1, <2>1, <2>2 DEF IInv, Types, streamVars
<1>3. GrowsForOneToken'  BY <1>1, GrowthStill DEF IInv, streamVars
<1>4. ASSUME WholeText' PROVE Holds(NewReader(cached))' /\ Holds(reader)'
  <2>1. PICK r : r = NewReader(cached)  OBVIOUS
  <2>2. Holds(r)  BY <1>1, <1>4, <2>1, TextStill DEF IInv
  <2>3. Holds(r)'  BY <1>1, <2>2, HoldsStill
  <2>4. NewReader(cached)' = r /\ reader' = r  BY <1>1, <2>1 DEF NewReader
  <2> QED  BY <2>3, <2>4 DEF Holds
<1> QED  BY <1>1, <1>2, <1>3, <1>4 DEF IInv

(* The reader, and what ends with it, are lost; nothing else is.           *)
LEMMA ReaderThrowsInv == IInv /\ ReaderThrows => IInv'
<1> SUFFICES ASSUME IInv, ReaderThrows PROVE IInv'  OBVIOUS
<1>1. /\ pc # "new" /\ pc' = "failed"
      /\ UNCHANGED <<streamVars, delivered, buffer, cached, reader>>
  BY DEF ReaderThrows
<1>2. Types'
  <2>1. UNCHANGED <<Bytes, BomBytes, ReaderState, Reader>>
    BY <1>1, TextStill DEF Reader, ReaderState, streamVars
  <2> QED  BY <1>1, <2>1 DEF IInv, Types, streamVars
<1>3. GrowsForOneToken'  BY <1>1, GrowthStill DEF IInv, streamVars
<1> QED  BY <1>1, <1>2, <1>3 DEF IInv

(* A token is read and nothing moves.                                      *)
LEMMA TokenRead ==
    ASSUME IInv, NEW u \in DOMAIN input, Reads(u), reader' = After(u),
           pc \in {"start", "search", "write"},
           pc' \in {"start", "idle", "search", "write", "failed"},
           UNCHANGED <<streamVars, delivered, buffer, cached>>
    PROVE  IInv'
<1>1. PICK r : r = After(u)  OBVIOUS
<1>2. r \in Reader  BY <1>1, AfterType DEF IInv
<1>3. Types'
  <2>1. UNCHANGED <<Bytes, BomBytes, ReaderState, Reader>>
    BY TextStill DEF Reader, ReaderState, streamVars
  <2> QED  BY <1>1, <1>2, <2>1 DEF IInv, Types, streamVars
<1>4. GrowsForOneToken'  BY GrowthStill DEF IInv, streamVars
<1>5. ASSUME WholeText' PROVE Holds(NewReader(cached))' /\ Holds(reader)'
  <2>1. WholeText  BY <1>5, TextStill
  <2>2. PICK q : q = NewReader(cached)  OBVIOUS
  <2>3. Holds(r)  BY <1>1, <2>1, AfterHolds DEF IInv
  <2>4. Holds(q)  BY <2>1, <2>2 DEF IInv
  <2>5. Holds(r)' /\ Holds(q)'  BY <2>3, <2>4, HoldsStill
  <2>6. NewReader(cached)' = q /\ reader' = r  BY <1>1, <2>2 DEF NewReader
  <2> QED  BY <2>5, <2>6 DEF Holds
<1> QED  BY <1>3, <1>4, <1>5 DEF IInv

(* A token is read that ends the call, and the buffer slides to it.        *)
LEMMA TokenCached ==
    ASSUME IInv, NEW u \in DOMAIN input, Reads(u), reader' = After(u),
           pc \in {"start", "search", "write"}, pc' = "idle",
           CacheStateForLaterUse(After(u)), UNCHANGED streamVars
    PROVE  IInv'
<1>1. PICK r : r = After(u)  OBVIOUS
<1>2. r \in Reader /\ Types  BY <1>1, AfterType DEF IInv
<1>3. PICK left, count, moved : /\ left = Len(buffer) - r.at
                                /\ count = ReadBytes(delivered, r.at)
                                /\ moved = MoveToFront(buffer, r.at)
  OBVIOUS
<1>4. /\ buffer' = Store(moved, left, count, delivered)
      /\ delivered' = delivered + count /\ cached' = r.state
  BY <1>1, <1>3 DEF CacheStateForLaterUse
<1>5. /\ delivered \in Nat /\ delivered <= Bytes /\ Bytes \in Nat /\ Len(buffer) \in Nat
      /\ r.at \in 0..Len(buffer) /\ buffer \in Seq(Int) /\ bom \in BOOLEAN
      /\ BomBytes <= delivered /\ BomBytes \in Nat
  BY <1>2, DeliveryFacts DEF Types, Reader
<1>6. /\ left \in Nat /\ left <= Len(buffer) /\ Len(buffer) - left = r.at
      /\ count \in Nat /\ delivered + count <= Bytes /\ left + count <= Len(buffer)
  <2>1. left \in Nat /\ left <= Len(buffer) /\ Len(buffer) - left = r.at  BY <1>3, <1>5
  <2>2. r.at \in Nat /\ Bytes - delivered \in Nat  BY <1>5
  <2>3. count \in Nat /\ count <= r.at /\ count <= Bytes - delivered
    BY <1>3, <2>2 DEF ReadBytes, Min2
  <2>4. delivered + count <= Bytes  BY <1>5, <2>3
  <2> QED  BY <1>5, <2>1, <2>2, <2>3, <2>4
<1>7. /\ moved \in Seq(Int) /\ Len(moved) = Len(buffer)
      /\ \A j \in 1..left : moved[j] = buffer[j + r.at]
  BY <1>3, <1>5, MoveFacts
<1>8. /\ buffer' \in Seq(Int) /\ Len(buffer)' = Len(buffer)
      /\ \A j \in 1..Len(buffer) : buffer'[j] =
            IF j \in left + 1..left + count THEN StreamByte(delivered + j - left) ELSE moved[j]
  <2>1. /\ Store(moved, left, count, delivered) \in Seq(Int)
        /\ Len(Store(moved, left, count, delivered)) = Len(moved)
        /\ \A j \in 1..Len(moved) : Store(moved, left, count, delivered)[j] =
              IF j \in left + 1..left + count THEN StreamByte(delivered + j - left) ELSE moved[j]
    BY <1>5, <1>6, <1>7, StoreFacts
  <2> QED  BY <1>4, <1>7, <2>1
<1>9. Types'
  <2>1. UNCHANGED <<Bytes, BomBytes, ReaderState, Reader>>
    BY <1>8, TextStill DEF Reader, ReaderState, streamVars
  <2>2. delivered' \in 0..Bytes /\ BomBytes <= delivered'  BY <1>4, <1>5, <1>6
  <2>3. reader' \in Reader /\ cached' \in ReaderState  BY <1>1, <1>2, <1>4 DEF Reader
  <2> QED  BY <1>2, <1>8, <2>1, <2>2, <2>3 DEF Types, streamVars
<1>10. GrowsForOneToken'  BY <1>8, GrowthStill DEF IInv, streamVars
<1>11. ASSUME WholeText' PROVE Holds(NewReader(cached))'
  <2>1. WholeText  BY <1>11, TextStill
  <2>2. Holds(r)  BY <1>1, <2>1, AfterHolds DEF IInv
  <2>3. count = ReadBytes(delivered, Len(buffer)' - left)  BY <1>3, <1>6, <1>8
  <2>4. ASSUME NEW j \in 1..left PROVE buffer'[j] = buffer[j + r.at]
    <3>1. j \in 1..Len(buffer) /\ j \notin left + 1..left + count  BY <1>5, <1>6
    <3> QED  BY <1>7, <1>8, <3>1
  <2>5. ASSUME NEW j \in left + 1..left + count
        PROVE  buffer'[j] = StreamByte(delivered + j - left)
    <3>1. j \in 1..Len(buffer)  BY <1>5, <1>6
    <3> QED  BY <1>8, <3>1
  <2>6. left = Len(buffer) - r.at /\ left <= Len(buffer)'  BY <1>3, <1>6, <1>8
  <2> QED  BY <1>2, <1>4, <1>5, <1>9, <2>2, <2>3, <2>4, <2>5, <2>6, Refilled
<1> QED  BY <1>9, <1>10, <1>11 DEF IInv
----------------------------------------------------------------------------
(* A reader that stalls may have gone on, never back.                      *)
LEMMA StalledAt ==
    ASSUME Types, NEW r \in Stalled
    PROVE  reader.at <= r.at
<1>1. reader.at \in Nat /\ Len(Rest) \in Nat  BY RestFacts DEF Types, Reader
<1>2. CASE r = reader  BY <1>1, <1>2
<1>3. CASE r = Consumed(Len(Rest), TextDelivered)
  <2>1. r.at = reader.at + Len(Rest)  BY <1>3 DEF Consumed
  <2> QED  BY <1>1, <2>1
<1>4. ASSUME NEW u \in DOMAIN input, AtToken(u),
             NEW n \in 1..Min2(Len(Rest), input[u].text - From(u)),
             r = Consumed(n, From(u) + n - 1)
      PROVE  reader.at <= r.at
  <2>1. n \in Nat
    <3>1. input[u].text \in Nat /\ From(u) \in Nat  BY <1>4, TokenFacts, FromFacts
    <3> QED  BY <1>1, <3>1 DEF Min2
  <2>2. r.at = reader.at + n  BY <1>4 DEF Consumed
  <2> QED  BY <1>1, <2>1, <2>2
<1> QED  BY <1>2, <1>3, <1>4, StalledCases

(* The buffer before the refill: what is left over stands in front, and it *)
(* is as long as before or twice what is left over.                        *)
LEMMA GrownFacts ==
    ASSUME Types, NEW r \in Reader, NEW left, NEW length, NEW moved,
           left = Len(buffer) - r.at, length = GrownLength(left),
           moved = [j \in 1..length |-> IF j <= left THEN buffer[j + r.at]
                                        ELSE IF left = 0 THEN buffer[j] ELSE 0]
    PROVE  /\ left \in Nat /\ left <= Len(buffer) /\ length \in Nat /\ left <= length
           /\ length = Len(buffer) \/ (r.at = 0 /\ left > 0 /\ length = 2 * left)
           /\ moved \in Seq(Int) /\ Len(moved) = length
           /\ \A j \in 1..left : moved[j] = buffer[j + r.at]
<1>1. /\ buffer \in Seq(Int) /\ Len(buffer) \in Nat /\ DOMAIN buffer = 1..Len(buffer)
      /\ r.at \in 0..Len(buffer)
  BY DEF Types, Reader
<1>2. left \in Nat /\ left <= Len(buffer)  BY <1>1
<1>3. /\ length \in Nat /\ left <= length
      /\ length = Len(buffer) \/ (r.at = 0 /\ left > 0 /\ length = 2 * left)
  <2>1. CASE left = Len(buffer)
    <3>1. length = 2 * left  BY <2>1 DEF GrownLength
    <3>2. r.at = 0  BY <1>1, <2>1
    <3> QED  BY <1>2, <2>1, <3>1, <3>2
  <2>2. CASE left # Len(buffer)
    <3>1. length = Len(buffer)  BY <2>2 DEF GrownLength
    <3> QED  BY <1>1, <1>2, <3>1
  <2> QED  BY <2>1, <2>2
<1>4. \A j \in 1..left : j \in 1..length /\ moved[j] = buffer[j + r.at]
  BY <1>2, <1>3
<1>5. \A j \in 1..length : moved[j] \in Int
  <2> TAKE j \in 1..length
  <2>1. CASE j <= left
    <3>1. j + r.at \in 1..Len(buffer)  BY <1>1, <1>2, <2>1
    <3> QED  BY <1>1, <2>1, <3>1
  <2>2. CASE j > left /\ left = 0
    <3>1. j \in 1..Len(buffer)  BY <1>3, <2>2
    <3>2. moved[j] = buffer[j]  BY <1>3, <2>2
    <3> QED  BY <1>1, <3>1, <3>2
  <2>3. CASE j > left /\ left # 0
    <3>1. moved[j] = 0  BY <1>2, <2>3
    <3> QED  BY <3>1
  <2> QED  BY <1>2, <1>3, <2>1, <2>2, <2>3
<1>6. moved \in Seq(Int) /\ Len(moved) = length
  <2>1. moved \in [1..length -> Int]  BY <1>5
  <2> QED  BY <1>3, <2>1
<1> QED  BY <1>2, <1>3, <1>4, <1>6

(* What a token takes in the buffer: a number leaves a byte for what       *)
(* follows it.                                                             *)
Room(u) == input[u].end - input[u].start + IF input[u].kind = "number" THEN 1 ELSE 0

(* The buffer grows only when the reader has consumed nothing of it and    *)
(* still has not got a whole token: that token takes more than the buffer. *)
LEMMA OneTokenDidNotFit ==
    ASSUME Types, NeedsMore, NEW r \in Stalled, r.at = 0, Len(buffer) > 0
    PROVE  \E u \in DOMAIN input : Len(buffer) <= Room(u)
<1>1. /\ reader.at = 0 /\ Len(buffer) \in Nat
  <2>1. reader.at \in 0..Len(buffer) /\ Len(buffer) \in Nat  BY DEF Types, Reader
  <2> QED  BY <2>1, StalledAt
<1>2. Len(Rest) = Len(buffer) /\ Rest # <<>>  BY <1>1, RestFacts
<1>3. ~Blank
  <2> SUFFICES ASSUME Blank PROVE FALSE  OBVIOUS
  <2>1. r = Consumed(Len(Rest), TextDelivered)  BY <1>2, Zenon DEF Stalled
  <2>2. r.at = reader.at + Len(Rest)  BY <2>1 DEF Consumed
  <2> QED  BY <1>1, <1>2, <2>2
<1>4. PICK u \in DOMAIN input : AtToken(u) /\ ~Fits(u)  BY <1>3 DEF NeedsMore
<1>5. /\ input[u].start \in Nat /\ input[u].end \in Nat /\ From(u) \in Nat
      /\ input[u].start <= From(u)
  BY <1>4, TokenFacts, FromFacts
<1>6. Ahead(u) = input[u].end - From(u) + 1  BY DEF Ahead
<1>7. CASE input[u].kind = "number"
  <2>1. Len(Rest) <= Ahead(u)
    <3>1. ~(Ahead(u) < Len(Rest)) \/ ~(Ahead(u) <= Len(Rest))  BY <1>4 DEF Fits
    <3> QED  BY <1>1, <1>2, <1>5, <1>6, <3>1
  <2>2. Room(u) = input[u].end - input[u].start + 1  BY <1>7 DEF Room
  <2>3. Len(buffer) <= Room(u)  BY <1>1, <1>2, <1>5, <1>6, <2>1, <2>2
  <2> QED  BY <2>3
<1>8. CASE input[u].kind # "number"
  <2>1. ~(Ahead(u) <= Len(Rest))  BY <1>4, <1>8 DEF Fits
  <2>2. Room(u) = input[u].end - input[u].start  BY <1>5, <1>8 DEF Room
  <2>3. Len(buffer) <= Room(u)  BY <1>1, <1>2, <1>5, <1>6, <2>1, <2>2
  <2> QED  BY <2>3
<1> QED  BY <1>7, <1>8

(* The reader asks for more, and the buffer slides, grows or stays.        *)
LEMMA GetMoreBytesInv == IInv /\ GetMoreBytesFromStream => IInv'
<1> SUFFICES ASSUME IInv, GetMoreBytesFromStream PROVE IInv'  OBVIOUS
<1>1. /\ pc \in {"start", "search", "write"} /\ NeedsMore
      /\ UNCHANGED <<streamVars, pc>>
  BY DEF GetMoreBytesFromStream
<1>2. PICK r, left, length, moved, count :
         /\ r \in Stalled
         /\ left = Len(buffer) - r.at /\ length = GrownLength(left)
         /\ moved = [j \in 1..length |-> IF j <= left THEN buffer[j + r.at]
                                         ELSE IF left = 0 THEN buffer[j] ELSE 0]
         /\ count = ReadBytes(delivered, length - left)
         /\ buffer' = Store(moved, left, count, delivered)
         /\ delivered' = delivered + count
         /\ cached' = r.state /\ reader' = NewReader(r.state)
  BY DEF GetMoreBytesFromStream
<1>3. r \in Stalled /\ r \in Reader /\ Types  BY <1>1, <1>2, StalledType DEF IInv
<1>4. /\ left \in Nat /\ left <= Len(buffer) /\ length \in Nat /\ left <= length
      /\ length = Len(buffer) \/ (r.at = 0 /\ left > 0 /\ length = 2 * left)
      /\ moved \in Seq(Int) /\ Len(moved) = length
      /\ \A j \in 1..left : moved[j] = buffer[j + r.at]
  BY <1>2, <1>3, GrownFacts
<1>5. /\ delivered \in Nat /\ delivered <= Bytes /\ Bytes \in Nat /\ Len(buffer) \in Nat
      /\ bom \in BOOLEAN /\ BomBytes <= delivered /\ BomBytes \in Nat
  BY <1>1, <1>3, DeliveryFacts DEF Types
<1>6. count \in Nat /\ delivered + count <= Bytes /\ left + count <= length
  <2>1. length - left \in Nat /\ Bytes - delivered \in Nat  BY <1>4, <1>5
  <2>2. count \in Nat /\ count <= length - left /\ count <= Bytes - delivered
    BY <1>2, <2>1 DEF ReadBytes, Min2
  <2> QED  BY <1>4, <1>5, <2>2
<1>7. /\ buffer' \in Seq(Int) /\ Len(buffer)' = length
      /\ \A j \in 1..length : buffer'[j] =
            IF j \in left + 1..left + count THEN StreamByte(delivered + j - left) ELSE moved[j]
  <2>1. /\ Store(moved, left, count, delivered) \in Seq(Int)
        /\ Len(Store(moved, left, count, delivered)) = Len(moved)
        /\ \A j \in 1..Len(moved) : Store(moved, left, count, delivered)[j] =
              IF j \in left + 1..left + count THEN StreamByte(delivered + j - left) ELSE moved[j]
    <3>1. /\ moved \in Seq(Int) /\ left \in Nat /\ count \in Nat /\ delivered \in Nat
          /\ bom \in BOOLEAN
      BY <1>4, <1>5, <1>6
    <3> QED  BY ONLY <3>1, StoreFacts, SMTT(30)
  <2> QED  BY <1>2, <1>4, <2>1
<1>8. Types'
  <2>1. UNCHANGED <<Bytes, BomBytes, ReaderState>>  BY <1>1, TextStill
  <2>2. delivered' \in 0..Bytes /\ BomBytes <= delivered'  BY <1>2, <1>5, <1>6
  <2>3. reader' \in Reader' /\ cached' \in ReaderState'
    BY <1>2, <1>3, <1>4, <1>7, <2>1 DEF Reader, NewReader
  <2> QED  BY <1>1, <1>3, <1>7, <2>1, <2>2, <2>3 DEF Types, streamVars
<1>9. GrowsForOneToken'
  <2>1. CASE length = Len(buffer)
    BY <1>1, <1>7, <2>1, GrowthStill DEF IInv, streamVars
  <2>2. CASE r.at = 0 /\ left > 0 /\ length = 2 * left
    <3>1. left = Len(buffer)  BY <1>2, <1>5, <2>2
    <3>2. PICK u \in DOMAIN input : Len(buffer) <= Room(u)
      BY <1>1, <1>3, <2>2, <3>1, OneTokenDidNotFit
    <3>3. Room(u) \in Int  BY <1>3, TokenFacts DEF Room
    <3>4. Len(buffer)' <= 2 * Room(u)  BY <1>5, <1>7, <2>2, <3>1, <3>2, <3>3
    <3> QED  BY <1>1, <3>4 DEF GrowsForOneToken, Room, streamVars
  <2> QED  BY <1>4, <2>1, <2>2
<1>10. ASSUME WholeText' PROVE Holds(NewReader(cached))' /\ Holds(reader)'
  <2>1. WholeText  BY <1>1, <1>10, TextStill
  <2>2. Holds(r)  BY <1>1, <1>3, <1>5, <2>1, StalledHolds DEF IInv
  <2>3. count = ReadBytes(delivered, Len(buffer)' - left)  BY <1>2, <1>7
  <2>4. ASSUME NEW j \in 1..left PROVE buffer'[j] = buffer[j + r.at]
    <3>1. j \in 1..length /\ j \notin left + 1..left + count  BY <1>4, <1>6
    <3> QED  BY <1>4, <1>7, <3>1
  <2>5. ASSUME NEW j \in left + 1..left + count
        PROVE  buffer'[j] = StreamByte(delivered + j - left)
    <3>1. j \in 1..length  BY <1>4, <1>6
    <3> QED  BY <1>7, <3>1
  <2>6. left = Len(buffer) - r.at /\ left <= Len(buffer)'  BY <1>2, <1>4, <1>7
  <2>7. Holds(NewReader(cached))'
    BY <1>1, <1>2, <1>3, <1>5, <1>8, <2>2, <2>3, <2>4, <2>5, <2>6, Refilled
  <2>8. reader' = NewReader(cached)'  BY <1>2 DEF NewReader
  <2> QED  BY <2>7, <2>8 DEF Holds
<1> QED  BY <1>8, <1>9, <1>10 DEF IInv
----------------------------------------------------------------------------
(* One Read gives no more than was asked for, nor than there is; without   *)
(* short reads it gives all of that.                                       *)
LEMMA ReadResultsFacts ==
    ASSUME NEW taken \in Nat, NEW wanted \in Nat, taken <= Bytes, Bytes \in Nat,
           NEW read \in ReadResults(taken, wanted)
    PROVE  /\ read \in Nat /\ read <= wanted /\ taken + read <= Bytes
           /\ ~short => read = wanted \/ taken + read = Bytes
<1>1. PICK most : most = Min2(wanted, Bytes - taken)  OBVIOUS
<1>2. /\ most \in Nat /\ most <= wanted /\ most <= Bytes - taken
      /\ most = wanted \/ most = Bytes - taken
  BY <1>1 DEF Min2
<1>3. read \in (IF most = 0 THEN {0} ELSE IF short THEN 1..most ELSE {most})
  BY <1>1 DEF ReadResults
<1>4. read \in Nat /\ read <= most /\ (~short => read = most)  BY <1>2, <1>3
<1> QED  BY <1>2, <1>4

(* Nothing of the text is lost with the first bytes of the stream.         *)
LEMMA FirstHolds ==
    ASSUME Types, Types', UNCHANGED streamVars, cached' = Fresh, reader' = NewReader(Fresh),
           TextDelivered' \in Nat, TextDelivered' <= Len(buffer)',
           delivered' = Bytes \/ TextDelivered' = Len(buffer)',
           \A j \in 1..TextDelivered' : buffer'[j] = j
    PROVE  Holds(NewReader(cached))' /\ Holds(reader)'
<1>1. Fresh.last = 0 /\ Fresh.open = 0 /\ Fresh.mid = 0  BY DEF Fresh
<1>2. Position(Fresh)' = 0  BY <1>1 DEF Position
<1>3. Open(0)' = 0
  <2>1. \A K : {v \in 1..0 : input'[v].kind \in K} = {}  OBVIOUS
  <2> QED  BY <2>1, FS_EmptySet DEF Open
<1>4. StateKnown(Fresh)'  BY <1>1, <1>3 DEF StateKnown
<1>5. Len(buffer)' \in Nat /\ DOMAIN buffer' = 1..Len(buffer)'  BY DEF Types
<1>6. Bytes' = Bytes  BY TextStill
<1>7. NewReader(Fresh).state = Fresh /\ NewReader(Fresh).at = 0  BY DEF NewReader
<1>8. TextDelivered' - Position(Fresh)' = TextDelivered'
  <2>1. \A x \in Nat : x - 0 = x  OBVIOUS
  <2> QED  BY <1>2, <2>1
<1>9. \A j \in 1..TextDelivered' :
         /\ 0 + j \in DOMAIN buffer' /\ buffer'[0 + j] = Position(Fresh)' + j
  BY <1>2, <1>5
<1>10. Holds(NewReader(Fresh))'
  BY <1>4, <1>5, <1>6, <1>7, <1>8, <1>9 DEF Holds
<1>11. NewReader(cached)' = NewReader(Fresh)' /\ reader' = NewReader(Fresh)'
  BY DEF NewReader, Fresh
<1> QED  BY <1>10, <1>11 DEF Holds

(* With a byte order mark the text is moved to the front and the end of    *)
(* the buffer filled by one Read.                                          *)
LEMMA MarkDropped ==
    ASSUME Types, bom, ~short, delivered = 0, Len(buffer) = BufferSize,
           NEW count, count = ReadBytes(0, BufferSize),
           NEW read, read = Store(buffer, 0, count, 0),
           NEW kept, kept = BufferSize - BomLength,
           NEW extra \in ReadResults(count, BomLength),
           NEW filled,
           filled = Store(ClearFrom(MoveToFront(read, BomLength), kept), kept, extra, count)
    PROVE  /\ count + extra - BomLength \in Nat /\ count + extra - BomLength <= BufferSize
           /\ count + extra = Bytes \/ count + extra - BomLength = BufferSize
           /\ \A j \in 1..count + extra - BomLength : filled[j] = j
<1>1. /\ BufferSize \in Nat /\ BomLength \in Nat /\ BomLength >= 1 /\ BomLength <= BufferSize
      /\ size \in Nat /\ Bytes = size + BomLength /\ buffer \in Seq(Int) /\ bom \in BOOLEAN
  BY StreamAssumption DEF Types, Bytes, BomBytes
<1>2. kept \in Nat /\ kept + BomLength = BufferSize  BY <1>1
<1>3. /\ count \in Nat /\ BomLength <= count /\ count <= BufferSize /\ count <= Bytes
      /\ count = BufferSize \/ count = Bytes
  BY <1>1 DEF ReadBytes, Min2
<1>4. /\ extra \in Nat /\ extra <= BomLength /\ count + extra <= Bytes
      /\ extra = BomLength \/ count + extra = Bytes
  BY <1>1, <1>3, ReadResultsFacts
<1>5. extra > 0 => count = BufferSize  BY <1>1, <1>3, <1>4
<1>6. /\ read \in Seq(Int) /\ Len(read) = BufferSize
      /\ \A j \in 1..BufferSize : read[j] =
            IF j \in 0 + 1..0 + count THEN StreamByte(0 + j - 0) ELSE buffer[j]
  BY <1>1, <1>3, StoreFacts, SMTT(30)
<1>7. PICK moved : moved = MoveToFront(read, BomLength)  OBVIOUS
<1>8. /\ moved \in Seq(Int) /\ Len(moved) = BufferSize
      /\ \A j \in 1..kept : moved[j] = read[j + BomLength]
  <2>1. BomLength \in 0..Len(read) /\ Len(read) - BomLength = kept  BY <1>1, <1>2, <1>6
  <2> QED  BY <1>6, <1>7, <2>1, MoveFacts, SMTT(30)
<1>9. PICK cleared : cleared = ClearFrom(moved, kept)  OBVIOUS
<1>10. /\ cleared \in Seq(Int) /\ Len(cleared) = BufferSize
       /\ \A j \in 1..BufferSize : j <= kept => cleared[j] = moved[j]
  BY <1>2, <1>8, <1>9, ClearFacts
<1>11. \A j \in 1..BufferSize : filled[j] =
          IF j \in kept + 1..kept + extra THEN StreamByte(count + j - kept) ELSE cleared[j]
  <2>1. /\ cleared \in Seq(Int) /\ kept \in Nat /\ extra \in Nat /\ count \in Nat
        /\ bom \in BOOLEAN
    BY <1>1, <1>2, <1>3, <1>4, <1>10
  <2>2. \A j \in 1..Len(cleared) : Store(cleared, kept, extra, count)[j] =
           IF j \in kept + 1..kept + extra THEN StreamByte(count + j - kept) ELSE cleared[j]
    BY ONLY <2>1, StoreFacts
  <2> QED  BY <1>7, <1>9, <1>10, <2>2
<1>12. /\ count + extra - BomLength \in Nat /\ count + extra - BomLength <= BufferSize
       /\ count + extra = Bytes \/ count + extra - BomLength = BufferSize
  BY <1>1, <1>3, <1>4, <1>5
<1>13. ASSUME NEW j \in 1..count + extra - BomLength PROVE filled[j] = j
  <2>0. j \in Nat /\ j >= 1 /\ j \in 1..BufferSize  BY <1>1, <1>12
  <2>1. CASE j <= kept
    <3>1. j + BomLength <= count
      <4>1. CASE extra = 0  BY <1>1, <1>3, <2>0, <4>1
      <4>2. CASE extra > 0  BY <1>1, <1>2, <1>5, <2>0, <2>1, <4>2
      <4> QED  BY <1>4, <4>1, <4>2
    <3>2. j + BomLength \in 1..BufferSize /\ j + BomLength \in 0 + 1..0 + count
      BY <1>1, <1>3, <2>0, <3>1
    <3>3. read[j + BomLength] = StreamByte(0 + (j + BomLength) - 0)  BY <1>6, <3>2
    <3>4. StreamByte(0 + (j + BomLength) - 0) = j  BY <1>1, <2>0 DEF StreamByte
    <3>5. filled[j] = cleared[j] /\ cleared[j] = moved[j]
      <4>1. j \notin kept + 1..kept + extra  BY <1>2, <1>4, <2>0, <2>1
      <4> QED  BY <1>10, <1>11, <2>0, <2>1, <4>1
    <3>6. moved[j] = read[j + BomLength]
      <4>1. j \in 1..kept  BY <1>2, <2>0, <2>1
      <4> QED  BY <1>8, <4>1
    <3> QED  BY <3>3, <3>4, <3>5, <3>6
  <2>2. CASE j > kept
    <3>1. j \in kept + 1..kept + extra  BY <1>1, <1>2, <1>3, <1>4, <2>0, <2>2
    <3>2. extra > 0  BY <1>2, <1>4, <2>0, <3>1
    <3>3. filled[j] = StreamByte(count + j - kept)  BY <1>11, <2>0, <3>1
    <3>4. count + j - kept = j + BomLength  BY <1>1, <1>2, <1>5, <2>0, <3>2
    <3>5. StreamByte(j + BomLength) = j  BY <1>1, <2>0 DEF StreamByte
    <3> QED  BY <3>3, <3>4, <3>5
  <2> QED  BY <1>2, <2>0, <2>1, <2>2
<1> QED  BY <1>12, <1>13

(* The first bytes of the stream stand in the buffer, without the mark.    *)
LEMMA InitializeBufferInv == IInv /\ InitializeBuffer => IInv'
<1> SUFFICES ASSUME IInv, InitializeBuffer PROVE IInv'  OBVIOUS
<1>1. /\ pc = "new"
      /\ UNCHANGED <<streamVars, isFinalBlock, cached, reader>>
      /\ IF size = 0 THEN pc' = "failed" ELSE pc' = "start"
  BY DEF InitializeBuffer
<1>2. PICK count, read, kept :
         /\ count = ReadBytes(0, BufferSize) /\ read = Store(buffer, 0, count, 0)
         /\ kept = BufferSize - BomLength
         /\ IF StartsWithBom(read)
            THEN \E extra \in ReadResults(count, BomLength) :
                    /\ buffer' = Store(ClearFrom(MoveToFront(read, BomLength), kept),
                                       kept, extra, count)
                    /\ delivered' = count + extra
            ELSE buffer' = read /\ delivered' = count
  BY DEF InitializeBuffer
<1>3. /\ Types /\ delivered = 0 /\ Len(buffer) = BufferSize
      /\ cached = Fresh /\ reader = NewReader(Fresh)
  BY <1>1 DEF IInv, Types
<1>4. /\ BufferSize \in Nat /\ BomLength \in Nat /\ BomLength >= 1 /\ BomLength <= BufferSize
      /\ size \in Nat /\ BomBytes \in Nat /\ BomBytes <= BomLength
      /\ Bytes = size + BomBytes /\ buffer \in Seq(Int) /\ bom \in BOOLEAN
  BY <1>3, StreamAssumption DEF Types, Bytes, BomBytes
<1>5. /\ count \in Nat /\ BomBytes <= count /\ count <= BufferSize /\ count <= Bytes
      /\ count = BufferSize \/ count = Bytes
  BY <1>2, <1>4 DEF ReadBytes, Min2
<1>6. /\ read \in Seq(Int) /\ Len(read) = BufferSize
      /\ \A j \in 1..BufferSize : read[j] =
            IF j \in 0 + 1..0 + count THEN StreamByte(0 + j - 0) ELSE buffer[j]
  <2>1. 0 \in Nat  OBVIOUS
  <2>2. /\ Store(buffer, 0, count, 0) \in Seq(Int)
        /\ Len(Store(buffer, 0, count, 0)) = Len(buffer)
        /\ \A j \in 1..Len(buffer) : Store(buffer, 0, count, 0)[j] =
              IF j \in 0 + 1..0 + count THEN StreamByte(0 + j - 0) ELSE buffer[j]
    BY <1>4, <1>5, <2>1, StoreFacts
  <2> QED  BY <1>2, <1>3, <2>2
<1>7. /\ buffer' \in Seq(Int) /\ Len(buffer)' = BufferSize
      /\ delivered' \in 0..Bytes /\ BomBytes <= delivered'
  <2>1. CASE StartsWithBom(read)
    <3>1. PICK extra \in ReadResults(count, BomLength) :
             /\ buffer' = Store(ClearFrom(MoveToFront(read, BomLength), kept), kept, extra, count)
             /\ delivered' = count + extra
      BY <1>2, <2>1
    <3>2. Bytes \in Nat  BY <1>4
    <3>3. extra \in Nat /\ count + extra <= Bytes
      BY <1>4, <1>5, <3>2, ReadResultsFacts
    <3>4. PICK moved : moved = MoveToFront(read, BomLength)  OBVIOUS
    <3>5. moved \in Seq(Int) /\ Len(moved) = BufferSize
      <4>1. BomLength \in 0..Len(read)  BY <1>4, <1>6
      <4> QED  BY <1>6, <3>4, <4>1, MoveFacts
    <3>6. PICK cleared : cleared = ClearFrom(moved, kept)  OBVIOUS
    <3>7. kept \in Nat  BY <1>2, <1>4
    <3>8. cleared \in Seq(Int) /\ Len(cleared) = BufferSize  BY <3>5, <3>6, <3>7, ClearFacts
    <3>9. /\ Store(cleared, kept, extra, count) \in Seq(Int)
          /\ Len(Store(cleared, kept, extra, count)) = BufferSize
      <4>1. extra \in Nat /\ count \in Nat /\ bom \in BOOLEAN  BY <1>4, <1>5, <3>3
      <4>2. /\ Store(cleared, kept, extra, count) \in Seq(Int)
            /\ Len(Store(cleared, kept, extra, count)) = Len(cleared)
        <5>1. cleared \in Seq(Int)  BY <3>8
        <5> QED  BY <3>7, <4>1, <5>1, StoreFacts
      <4> QED  BY <3>8, <4>2
    <3> QED  BY <1>4, <1>5, <3>1, <3>2, <3>3, <3>4, <3>6, <3>9
  <2>2. CASE ~StartsWithBom(read)
    <3>1. buffer' = read /\ delivered' = count  BY <1>2, <2>2
    <3>2. delivered' \in 0..Bytes  BY <1>4, <1>5, <3>1
    <3> QED  BY <1>5, <1>6, <3>1, <3>2
  <2> QED  BY <2>1, <2>2
<1>8. UNCHANGED <<Bytes, BomBytes, ReaderState, Reader>>
  BY <1>1, <1>3, <1>7, TextStill DEF Reader, ReaderState, streamVars
<1>9. Types'
  BY <1>1, <1>3, <1>7, <1>8 DEF Types, streamVars
<1>10. GrowsForOneToken'  BY <1>4, <1>7 DEF GrowsForOneToken
<1>11. ASSUME WholeText', pc' # "failed" PROVE Holds(NewReader(cached))' /\ Holds(reader)'
  <2>1. WholeText /\ size # 0  BY <1>1, <1>11, TextStill
  <2>2. TextDelivered' = delivered' - BomBytes  BY <1>8 DEF TextDelivered
  <2>3. /\ TextDelivered' \in Nat /\ TextDelivered' <= BufferSize
        /\ delivered' = Bytes \/ TextDelivered' = BufferSize
        /\ \A j \in 1..TextDelivered' : buffer'[j] = j
    <3>1. CASE bom
      <4>1. ~short  BY <2>1, <3>1 DEF WholeText
      <4>2. BomBytes = BomLength  BY <3>1 DEF BomBytes
      <4>3. StartsWithBom(read)
        <5>1. ASSUME NEW j \in 1..BomLength PROVE read[j] = -1
          <6>1. j \in 1..BufferSize /\ j \in 0 + 1..0 + count /\ 0 + j - 0 = j
            BY <1>4, <1>5, <4>2
          <6>2. read[j] = StreamByte(j)  BY <1>6, <6>1
          <6>3. StreamByte(j) = -1  BY <1>4, <3>1 DEF StreamByte
          <6> QED  BY <6>2, <6>3
        <5> QED  BY <5>1 DEF StartsWithBom
      <4>4. PICK extra \in ReadResults(count, BomLength) :
               /\ buffer' = Store(ClearFrom(MoveToFront(read, BomLength), kept),
                                  kept, extra, count)
               /\ delivered' = count + extra
        BY <1>2, <4>3
      <4>5. /\ count + extra - BomLength \in Nat /\ count + extra - BomLength <= BufferSize
            /\ count + extra = Bytes \/ count + extra - BomLength = BufferSize
            /\ \A j \in 1..count + extra - BomLength : buffer'[j] = j
        BY <1>2, <1>3, <3>1, <4>1, <4>4, MarkDropped
      <4>6. TextDelivered' = count + extra - BomLength
        <5>1. delivered' = count + extra  BY <4>4
        <5>2. extra \in Nat  BY <1>4, <1>5, ReadResultsFacts
        <5> QED  BY <1>4, <1>5, <2>2, <4>2, <5>1, <5>2
      <4>7. delivered' = Bytes \/ TextDelivered' = BufferSize  BY <4>4, <4>5, <4>6
      <4> QED  BY <4>5, <4>6, <4>7
    <3>2. CASE ~bom
      <4>1. BomBytes = 0  BY <3>2 DEF BomBytes
      <4>2. count >= 1  BY <1>4, <1>5, <2>1, <4>1
      <4>3. ASSUME NEW j \in 1..count PROVE read[j] = j
        <5>1. j \in 1..BufferSize /\ j \in 0 + 1..0 + count /\ 0 + j - 0 = j  BY <1>4, <1>5
        <5>2. read[j] = StreamByte(j)  BY <1>6, <5>1
        <5> QED  BY <3>2, <5>2 DEF StreamByte
      <4>4. ~StartsWithBom(read)
        <5>1. read[1] = 1 /\ 1 \in 1..BomLength  BY <1>4, <1>5, <4>2, <4>3
        <5> QED  BY <5>1 DEF StartsWithBom
      <4>5. buffer' = read /\ delivered' = count  BY <1>2, <4>4
      <4>6. TextDelivered' = count  BY <1>5, <2>2, <4>1, <4>5
      <4> QED  BY <1>5, <4>3, <4>5, <4>6
    <3> QED  BY <1>4, <3>1, <3>2
  <2> QED  BY <1>1, <1>3, <1>7, <1>9, <2>3, FirstHolds
<1>12. pc' # "new"  BY <1>1
<1> QED  BY <1>9, <1>10, <1>11, <1>12 DEF IInv
----------------------------------------------------------------------------
(* The "[" ends the first call; any other token is passed over or refused. *)
LEMMA ReadStartArrayTokenInv == IInv /\ ReadStartArrayToken => IInv'
<1> SUFFICES ASSUME IInv, ReadStartArrayToken PROVE IInv'  OBVIOUS
<1>1. pc = "start" /\ UNCHANGED streamVars  BY DEF ReadStartArrayToken
<1>2. PICK u \in DOMAIN input :
         /\ Reads(u) /\ reader' = After(u)
         /\ \/ CacheStateForLaterUse(After(u)) /\ pc' = "idle"
            \/ pc' \in {"start", "failed"} /\ UNCHANGED <<buffer, delivered, cached>>
  BY <1>1 DEF ReadStartArrayToken
<1>3. CASE CacheStateForLaterUse(After(u)) /\ pc' = "idle"  BY <1>1, <1>2, <1>3, TokenCached
<1>4. CASE pc' \in {"start", "failed"} /\ UNCHANGED <<buffer, delivered, cached>>
  BY <1>1, <1>2, <1>4, TokenRead
<1> QED  BY <1>2, <1>3, <1>4

(* Read returns FALSE on the final block, and only the reader moves on.    *)
LEMMA ReadReturnsFalseInv == IInv /\ ReadReturnsFalse => IInv'
<1> SUFFICES ASSUME IInv, ReadReturnsFalse PROVE IInv'  OBVIOUS
<1>1. /\ pc = "start" /\ pc' = "start" /\ reader' \in Stalled
      /\ UNCHANGED <<streamVars, delivered, buffer, cached>>
  BY DEF ReadReturnsFalse
<1>2. PICK r \in Stalled : reader' = r  BY <1>1
<1>3. Types /\ r \in Reader  BY <1>1, StalledType DEF IInv
<1>4. Types'
  <2>1. UNCHANGED <<Bytes, BomBytes, ReaderState, Reader>>
    BY <1>1, TextStill DEF Reader, ReaderState, streamVars
  <2> QED  BY <1>1, <1>2, <1>3, <2>1 DEF Types, streamVars
<1>5. GrowsForOneToken'  BY <1>1, GrowthStill DEF IInv, streamVars
<1>6. ASSUME WholeText' PROVE Holds(NewReader(cached))' /\ Holds(reader)'
  <2>1. WholeText  BY <1>1, <1>6, TextStill
  <2>2. PICK q : q = NewReader(cached)  OBVIOUS
  <2>3. Holds(reader) /\ BomBytes <= delivered  BY <1>1, <1>3, <2>1 DEF IInv, Types
  <2>4. Holds(r)  BY <1>3, <2>1, <2>3, StalledHolds
  <2>5. Holds(q)  BY <1>1, <2>1, <2>2 DEF IInv
  <2>6. Holds(r)' /\ Holds(q)'  BY <1>1, <2>4, <2>5, HoldsStill
  <2>7. NewReader(cached)' = q /\ reader' = r  BY <1>1, <1>2, <2>2 DEF NewReader
  <2> QED  BY <2>6, <2>7 DEF Holds
<1> QED  BY <1>1, <1>4, <1>5, <1>6 DEF IInv

(* The search reads on and leaves the buffer alone, even where it ends.    *)
LEMMA SearchStartOfObjectInv == IInv /\ SearchStartOfObject => IInv'
<1> SUFFICES ASSUME IInv, SearchStartOfObject PROVE IInv'  OBVIOUS
<1>1. pc = "search" /\ UNCHANGED <<streamVars, delivered, buffer, cached>>
  BY DEF SearchStartOfObject
<1>2. PICK u \in DOMAIN input :
         /\ Reads(u) /\ reader' = After(u) /\ pc' \in {"search", "write", "idle", "failed"}
  BY <1>1 DEF SearchStartOfObject
<1> QED  BY <1>1, <1>2, TokenRead

(* The end of an item ends the call.                                       *)
LEMMA WriteNextItemInv == IInv /\ WriteNextItem => IInv'
<1> SUFFICES ASSUME IInv, WriteNextItem PROVE IInv'  OBVIOUS
<1>1. pc = "write" /\ UNCHANGED streamVars  BY DEF WriteNextItem
<1>2. PICK u \in DOMAIN input :
         /\ Reads(u) /\ reader' = After(u)
         /\ \/ CacheStateForLaterUse(After(u)) /\ pc' = "idle"
            \/ pc' \in {"write", "failed"} /\ UNCHANGED <<buffer, delivered, cached>>
  BY <1>1 DEF WriteNextItem
<1>3. CASE CacheStateForLaterUse(After(u)) /\ pc' = "idle"  BY <1>1, <1>2, <1>3, TokenCached
<1>4. CASE pc' \in {"write", "failed"} /\ UNCHANGED <<buffer, delivered, cached>>
  BY <1>1, <1>2, <1>4, TokenRead
<1> QED  BY <1>2, <1>3, <1>4

(* A step that changes nothing.                                            *)
LEMMA StutterInv == IInv /\ UNCHANGED vars => IInv'
BY DEF IInv, vars, streamVars, Types, LaidOut, ReaderState, Reader, BomBytes, Bytes,
       GrowsForOneToken, WholeText, LastByte, Open, Holds, StateKnown, TextDelivered, Position, NewReader

(* Every step keeps the invariant.                                         *)
LEMMA NextInv == IInv /\ [Next]_vars => IInv'
BY InitializeBufferInv, ReadNextItemInv, GetMoreBytesInv, ReadStartArrayTokenInv,
   ReadReturnsFalseInv, SearchStartOfObjectInv, WriteNextItemInv, ReaderThrowsInv, StutterInv DEF Next

(* The invariant is one of the specification.                              *)
LEMMA Invariant == Spec => []IInv
BY InitInv, NextInv, PTL DEF Spec, Safe
----------------------------------------------------------------------------
(* GetMoreBytesFromStream doubles the buffer for one token that does not   *)
(* fit (lines 191-195): of any stream, good or bad, cut or short.          *)
THEOREM BufferGrows == Spec => []GrowsForOneToken
<1>1. IInv => GrowsForOneToken  BY DEF IInv
<1> QED  BY Invariant, <1>1, PTL

(* CacheStateForLaterUse and GetMoreBytesFromStream keep every byte that   *)
(* is not parsed yet, in one piece, where the reader goes on (lines        *)
(* 171-210), for every whole text and every length of the buffer.          *)
THEOREM NothingLost == Spec => [](WholeText => BufferHoldsInput)
<1>1. IInv => (WholeText => BufferHoldsInput)
  <2> SUFFICES ASSUME IInv, WholeText, pc \notin {"new", "failed"} PROVE BufferHoldsInput
    BY DEF BufferHoldsInput
  <2>1. PICK r : r = IF pc = "idle" THEN NewReader(cached) ELSE reader  OBVIOUS
  <2>2. Holds(r)  BY <2>1 DEF IInv
  <2>3. \A j \in 1..TextDelivered - Position(r.state) :
           /\ r.at + j \in DOMAIN buffer
           /\ buffer[r.at + j] = Position(r.state) + j
    BY <2>2 DEF Holds
  <2> QED  BY <2>1, <2>3 DEF BufferHoldsInput
<1> QED  BY Invariant, <1>1, PTL
----------------------------------------------------------------------------
(* The items of a good array.                                              *)

(* The last token closes the root, and a bracket closes one of its kind.   *)
Nested ==
    /\ \A u \in 1..Len(input) - 1 : Open(u) >= 1
    /\ \A u, v \in DOMAIN input :
          /\ u < v /\ input[u].kind \in Opening /\ input[v].kind \in Closing
          /\ Open(v) = Open(u) - 1
          /\ \A w \in u..v - 1 : Open(w) >= Open(u)
          => (input[u].kind = "{" <=> input[v].kind = "}")

(* A whole array of nothing but objects.                                   *)
GoodArray == WholeText /\ Nested /\ Abstract!ArrayOfObjects(input, size)

(* The items begun up to token k.                                          *)
Starts == {u \in DOMAIN input : input[u].kind = "{" /\ Open(u) = 2}
Begun(k) == Cardinality({v \in Starts : v <= k})

(* Token k is the last of an item that was given, or the root's bracket.   *)
BetweenItems(k) == /\ k \in 1..Len(input) - 1
                   /\ Open(k) = 1
                   /\ Begun(k) = Len(yielded)

(* The next item is written, up to token k.                                *)
InItem(k) ==
    \E first \in Starts :
       /\ first <= k /\ k < Len(input)
       /\ \A w \in first..k : Open(w) >= 2
       /\ Begun(first) = Len(yielded) + 1
       /\ item = [j \in 1..k - first + 1 |-> first + j - 1]
       /\ WriterOpen = Open(k) - 1

(* What the splitter has done with a good array, wherever it stands.       *)
Splitting ==
    /\ yielded \in Seq(Seq(Nat))
    /\ result \in {"none", "end"} /\ pc # "failed"
    /\ isFinalBlock => delivered = Bytes
    /\ pc = "new" => ~isFinalBlock
    /\ pc \in {"new", "start"} => yielded = <<>> /\ result = "none"
    /\ pc = "start" => reader.state.last = 0
    /\ pc \in {"idle", "search"} => BetweenItems(cached.last)
    /\ pc = "search" => reader.state.last = cached.last
    /\ pc = "write" => result = "none" /\ InItem(reader.state.last)
    /\ result = "end" => cached.last = Len(input) - 1

SplitInv == IInv /\ GoodArray /\ Splitting
----------------------------------------------------------------------------
(* The two modules count alike.                                            *)
LEMMA SameCount ==
    /\ \A u : Abstract!OpenAfter(input, u) = Open(u)
    /\ Abstract!ItemStarts(input) = Starts
    /\ Abstract!ItemCount(input) = Cardinality(Starts)
    /\ \A S : Abstract!Cardinality(S) = Cardinality(S)
<1>1. \A S : Abstract!Cardinality(S) = Cardinality(S)
  BY DEF Abstract!Cardinality, Cardinality
<1>2. \A u : Abstract!OpenAfter(input, u) = Open(u)
  BY <1>1 DEF Abstract!OpenAfter, Open, Abstract!Opening, Abstract!Closing, Opening, Closing
<1>3. Abstract!ItemStarts(input) = Starts  BY <1>2 DEF Abstract!ItemStarts, Starts
<1> QED  BY <1>1, <1>2, <1>3 DEF Abstract!ItemCount

(* A good array stays one, and its items stay.                             *)
LEMMA GoodStill ==
    ASSUME UNCHANGED streamVars
    PROVE  /\ GoodArray' <=> GoodArray
           /\ Starts' = Starts /\ \A k : Open(k)' = Open(k) /\ Begun(k)' = Begun(k)
<1>1. \A k : Open(k)' = Open(k)  BY DEF Open, streamVars
<1>2. Starts' = Starts  BY <1>1 DEF Starts, streamVars
<1>3. \A k : Begun(k)' = Begun(k)  BY <1>2 DEF Begun
<1>4. WholeText' <=> WholeText  BY TextStill
<1>5. Nested' <=> Nested  BY <1>1 DEF Nested, streamVars
<1>6. Abstract!ArrayOfObjects(input, size)' <=> Abstract!ArrayOfObjects(input, size)
  BY DEF Abstract!ArrayOfObjects, Abstract!OpenAfter, streamVars
<1> QED  BY <1>1, <1>2, <1>3, <1>4, <1>5, <1>6 DEF GoodArray

(* Its first and last tokens are the brackets of the root; between items   *)
(* nothing but an item begins.                                             *)
LEMMA GoodFacts ==
    ASSUME Types, GoodArray
    PROVE  /\ WholeText /\ Nested /\ Len(input) \in Nat /\ Len(input) >= 2 /\ size # 0
           /\ \A u \in 1..Len(input) : Open(u) \in Int
           /\ input[1].kind = "[" /\ Open(1) = 1
           /\ Open(Len(input)) = 0 /\ input[Len(input)].kind = "]"
           /\ \A u \in 2..Len(input) - 1 : Open(u - 1) = 1 => input[u].kind = "{"
<1>0. PICK n : n = Len(input)  OBVIOUS
<1>1. /\ WholeText /\ Nested /\ input # <<>> /\ size >= input[n].end
      /\ input[1].kind = "["
      /\ \A u \in 2..n - 1 : Open(u - 1) = 1 => input[u].kind = "{"
  BY <1>0, SameCount DEF GoodArray, Abstract!ArrayOfObjects
<1>2. n \in Nat /\ n >= 1 /\ DOMAIN input = 1..n /\ Open(n) = 0
  <2>1. input \in Seq(Token)  BY DEF Types
  <2>2. n \in Nat /\ n # 0  BY <1>0, <1>1, <2>1, EmptySeq
  <2>3. WholeText /\ input # <<>>  BY <1>1
  <2>4. Open(Len(input)) = 0  BY <2>3 DEF WholeText
  <2> QED  BY <1>0, <2>1, <2>2, <2>4
<1>b. input[1].kind \in Opening /\ input[1].kind # "{" /\ input[1].kind # "}"
  <2>1. input[1].kind = "["  BY <1>1
  <2> QED  BY <2>1 DEF Opening
<1>3. \A u \in 1..n : Open(u) \in Int /\ Open(u - 1) \in Int
  <2> TAKE u \in 1..n
  <2>1. u \in Nat \ {0}  OBVIOUS
  <2>2. /\ Open(u - 1) \in Int
        /\ Open(u) = Open(u - 1) + (IF input[u].kind \in Opening THEN 1
                                    ELSE IF input[u].kind \in Closing THEN -1 ELSE 0)
    BY <2>1, OpenStep
  <2> QED  BY <2>2
<1>4. Open(1) = 1
  <2>1. 1 \in Nat \ {0}  OBVIOUS
  <2>2. Open(1) = Open(1 - 1) + 1  BY <1>b, <2>1, OpenStep
  <2>3. 1 - 1 = 0  OBVIOUS
  <2> QED  BY <2>2, <2>3, OpenNone
<1>5. n >= 2  BY <1>2, <1>4
<1>6. input[n].kind = "]"
  <2>1. Open(n - 1) >= 1 /\ Open(n - 1) \in Int
    <3>1. n - 1 \in 1..n - 1 /\ n - 1 \in 1..n  BY <1>2, <1>5
    <3> QED  BY <1>0, <1>1, <1>3, <3>1 DEF Nested
  <2>2. n \in Nat \ {0}  BY <1>2
  <2>3. input[n].kind \in Closing
    <3>1. Open(n) = Open(n - 1) + (IF input[n].kind \in Opening THEN 1
                                   ELSE IF input[n].kind \in Closing THEN -1 ELSE 0)
      BY <2>2, OpenStep
    <3> QED  BY <1>2, <2>1, <3>1
  <2>4. \A w \in 1..n - 1 : Open(w) >= Open(1)  BY <1>0, <1>1, <1>4 DEF Nested
  <2>5. Open(n) = Open(1) - 1
    <3>1. Open(1) - 1 = 0  BY <1>4
    <3> QED  BY <1>2, <3>1
  <2>6. input[1].kind = "{" <=> input[n].kind = "}"
    <3>1. 1 \in DOMAIN input /\ n \in DOMAIN input /\ 1 < n  BY <1>2, <1>5
    <3> QED  BY <1>1, <1>b, <2>3, <2>4, <2>5, <3>1 DEF Nested
  <2> QED  BY <1>b, <2>3, <2>6 DEF Closing
<1>7. size # 0
  <2>1. /\ input[n].start \in Nat /\ input[n].text \in Nat /\ input[n].end \in Nat
        /\ input[n].start <= input[n].text /\ input[n].text <= input[n].end
        /\ input[n].start = input[n - 1].end + 1 /\ input[n - 1].end \in Nat
    BY <1>0, <1>2, <1>5, TokenFacts
  <2>2. size >= input[n].end /\ size \in Nat  BY <1>1 DEF Types
  <2> QED  BY <2>1, <2>2
<1> QED  BY <1>0, <1>1, <1>2, <1>3, <1>4, <1>5, <1>6, <1>7

(* One more token begins one more item, or none.                           *)
LEMMA BegunFacts ==
    ASSUME Types
    PROVE  /\ IsFiniteSet(Starts) /\ Starts \subseteq 1..Len(input)
           /\ \A k : Begun(k) \in Nat /\ Begun(k) <= Cardinality(Starts)
           /\ \A u, v \in Starts : u < v => Begun(u) < Begun(v)
           /\ \A k \in Nat : k + 1 \in Starts => Begun(k + 1) = Begun(k) + 1
<1>1. Starts \subseteq 1..Len(input)  BY TokenFacts DEF Starts
<1>2. IsFiniteSet(Starts)
  <2>1. Len(input) \in Nat  BY TokenFacts
  <2>2. IsFiniteSet(1..Len(input))  BY <2>1, FS_Interval
  <2> QED  BY <1>1, <2>2, FS_Subset
<1>3. Starts \subseteq Nat  BY <1>1
<1> DEFINE upTo(k) == {v \in Starts : v <= k}
<1>4. \A k : IsFiniteSet(upTo(k)) /\ Begun(k) \in Nat /\ Begun(k) <= Cardinality(Starts)
  <2> TAKE k
  <2>1. upTo(k) \in SUBSET Starts  OBVIOUS
  <2>2. IsFiniteSet(upTo(k)) /\ Cardinality(upTo(k)) <= Cardinality(Starts)
    BY <1>2, <2>1, FS_Subset
  <2>3. Cardinality(upTo(k)) \in Nat  BY <2>2, FS_CardinalityType
  <2> QED  BY <2>2, <2>3 DEF Begun
<1>5. ASSUME NEW u \in Starts, NEW v \in Starts, u < v
      PROVE  Begun(u) < Begun(v)
  <2>0. \A x \in Starts : x <= u => x <= v  BY <1>3, <1>5
  <2>1. upTo(u) \in SUBSET upTo(v)  BY <2>0
  <2>2. v \in upTo(v) /\ v \notin upTo(u)  BY <1>3, <1>5
  <2>3. Cardinality(upTo(u)) <= Cardinality(upTo(v)) /\ Cardinality(upTo(v)) # Cardinality(upTo(u))
    BY <1>4, <2>1, <2>2, FS_Subset
  <2>4. Begun(u) = Cardinality(upTo(u)) /\ Begun(v) = Cardinality(upTo(v))  BY DEF Begun
  <2>5. Begun(u) \in Nat /\ Begun(v) \in Nat  BY <1>4
  <2> HIDE DEF upTo
  <2> QED  BY <2>3, <2>4, <2>5
<1>6. ASSUME NEW k \in Nat, k + 1 \in Starts
      PROVE  Begun(k + 1) = Begun(k) + 1
  <2>0. \A x \in Starts : x <= k + 1 <=> x <= k \/ x = k + 1  BY <1>3
  <2>1. upTo(k + 1) = upTo(k) \cup {k + 1}  BY <1>6, <2>0
  <2>2. k + 1 \notin upTo(k)  OBVIOUS
  <2>3. Cardinality(upTo(k) \cup {k + 1}) = Cardinality(upTo(k)) + 1
    BY <1>4, <2>2, FS_AddElement
  <2> QED  BY <2>1, <2>3 DEF Begun
<1> QED  BY <1>1, <1>2, <1>4, <1>5, <1>6

(* The n-th object of the array is what lies between the n-th place where  *)
(* an item begins and the first token behind it that leaves the root open. *)
LEMMA ItemFacts ==
    ASSUME Types, NEW first \in Starts, NEW last \in first + 1..Len(input),
           Open(last) = 1, \A w \in first..last - 1 : Open(w) \in Int /\ Open(w) >= 2
    PROVE  Abstract!Item(input, Begun(first)) =
               [k \in 1..last - first + 1 |-> first + k - 1]
<1> DEFINE begin == CHOOSE u \in Starts : Begun(u) = Begun(first)
           close == CHOOSE v \in first + 1..Len(input) :
                        /\ Open(v) = Open(first) - 1
                        /\ \A w \in first..v - 1 : Open(w) >= Open(first)
<1>1. first \in Nat /\ Starts \subseteq Nat /\ Open(first) = 2
  <2>1. Starts \subseteq 1..Len(input)  BY BegunFacts
  <2>2. Starts \subseteq Nat  BY <2>1
  <2> QED  BY <2>2 DEF Starts
<1>2. begin = first
  <2>1. begin \in Starts /\ Begun(begin) = Begun(first)  OBVIOUS
  <2> HIDE DEF begin
  <2>2. ~(begin < first) /\ ~(first < begin)
    <3>1. Begun(begin) \in Nat /\ Begun(first) \in Nat  BY BegunFacts
    <3>2. begin < first => Begun(begin) < Begun(first)  BY <2>1, BegunFacts
    <3>3. first < begin => Begun(first) < Begun(begin)  BY <2>1, BegunFacts
    <3> QED  BY <2>1, <3>1, <3>2, <3>3
  <2>3. begin \in Nat  BY <1>1, <2>1
  <2> QED  BY <1>1, <2>2, <2>3
<1>3. close = last
  <2>1. /\ last \in first + 1..Len(input) /\ Open(last) = Open(first) - 1
        /\ \A w \in first..last - 1 : Open(w) >= Open(first)
    BY <1>1
  <2>2. /\ close \in first + 1..Len(input) /\ Open(close) = Open(first) - 1
        /\ \A w \in first..close - 1 : Open(w) >= Open(first)
    BY <2>1
  <2> HIDE DEF close
  <2>3. Len(input) \in Nat  BY TokenFacts
  <2>4. ~(last < close)
    <3>1. last < close => last \in first..close - 1  BY <1>1, <2>1, <2>2, <2>3
    <3> QED  BY <1>1, <2>1, <2>2, <3>1
  <2>5. ~(close < last)
    <3>1. close < last => close \in first..last - 1  BY <1>1, <2>1, <2>2, <2>3
    <3> QED  BY <1>1, <2>1, <2>2, <3>1
  <2> QED  BY <1>1, <2>1, <2>2, <2>3, <2>4, <2>5
<1>4. Abstract!Match(input, first) = close  BY SameCount DEF Abstract!Match
<1>5. Abstract!Item(input, Begun(first)) =
         LET last1 == Abstract!Match(input, begin)
         IN  [k \in 1..last1 - begin + 1 |-> begin + k - 1]
  BY SameCount DEF Abstract!Item, Begun
<1> HIDE DEF begin, close
<1> QED  BY <1>2, <1>3, <1>4, <1>5
----------------------------------------------------------------------------
(* In a good array a reader that is not behind the last token never fails: *)
(* it reads the next token or, unless the stream is over, asks for more.   *)
LEMMA NeverThrows ==
    ASSUME Types, GoodArray, Holds(reader), isFinalBlock => delivered = Bytes,
           reader.state.last < Len(input)
    PROVE  ~Throws
<1>1. PICK st, pos, u : /\ st = reader.state /\ pos = Position(reader.state)
                        /\ u = reader.state.last + 1
  OBVIOUS
<1>2. /\ st \in ReaderState /\ StateKnown(st) /\ st.last \in Nat /\ st.mid \in Nat
      /\ reader.at \in Nat /\ Len(buffer) \in Nat /\ DOMAIN buffer = 1..Len(buffer)
  BY <1>1, DeliveryFacts, TokenFacts DEF Types, Reader, ReaderState, Holds
<1>3. /\ pos \in Nat /\ u \in 1..Len(input) /\ u \in DOMAIN input
      /\ input[u].start <= pos + 1 /\ pos + 1 <= input[u].text
      /\ st.mid = 0 => pos = IF st.last = 0 THEN 0 ELSE input[st.last].end
      /\ st.mid # 0 => pos = st.mid
  <2>1. u \in 1..Len(input) /\ u \in DOMAIN input  BY <1>1, <1>2, TokenFacts
  <2>2. /\ pos \in Nat
        /\ st.mid = 0 => pos = IF st.last = 0 THEN 0 ELSE input[st.last].end
        /\ st.mid # 0 => pos = st.mid
    BY <1>1, <1>2, PositionFacts
  <2>3. input[u].start <= pos + 1 /\ pos + 1 <= input[u].text
    BY <1>1, <1>2, PositionFacts
  <2> QED  BY <2>1, <2>2, <2>3
<1>4. /\ input[u].start \in Nat /\ input[u].text \in Nat /\ input[u].end \in Nat
      /\ input[u].text <= input[u].end
      /\ input[u].start = IF u = 1 THEN 1 ELSE input[u - 1].end + 1
  BY <1>3, TokenFacts
<1>5. PICK unread : unread = TextDelivered - pos  OBVIOUS
<1>6. /\ unread \in Nat /\ TextDelivered \in Int
      /\ delivered = Bytes \/ unread = Len(buffer) - reader.at
      /\ \A j \in 1..unread : /\ reader.at + j \in 1..Len(buffer)
                              /\ buffer[reader.at + j] = pos + j
  <2>1. TextDelivered \in Int  BY DeliveryFacts
  <2> QED  BY <1>1, <1>2, <1>3, <1>5, <2>1 DEF Holds
<1>7. delivered = Bytes => input[u].end - pos <= unread
  <2>1. delivered = Bytes => input[u].end <= TextDelivered
    BY <1>3, AllDelivered DEF GoodArray
  <2> QED  BY <1>3, <1>4, <1>5, <1>6, <2>1
<1>8. /\ Len(Rest) = Len(buffer) - reader.at /\ Len(Rest) \in Nat
      /\ \A j \in 1..Len(Rest) : Rest[j] = buffer[reader.at + j]
      /\ Rest = <<>> <=> Len(Rest) = 0
  BY RestFacts
<1>9. From(u) = pos + 1
  <2>1. CASE st.mid = 0
    <3>1. input[u].start = pos + 1
      <4>1. CASE st.last = 0  BY <1>1, <1>2, <1>3, <1>4, <2>1, <4>1
      <4>2. CASE st.last # 0
        <5>1. u # 1 /\ u - 1 = st.last  BY <1>1, <1>2, <4>2
        <5> QED  BY <1>3, <1>4, <2>1, <4>2, <5>1
      <4> QED  BY <4>1, <4>2
    <3> QED  BY <1>1, <2>1, <3>1 DEF From
  <2>2. CASE st.mid # 0  BY <1>1, <1>3, <2>2 DEF From
  <2> QED  BY <2>1, <2>2
<1>10. ASSUME Rest # <<>> PROVE AtToken(u)
  <2>1. st.open > 0 \/ st.last = 0
    <3>1. CASE st.last # 0
      <4>1. st.last \in 1..Len(input) - 1  BY <1>1, <1>2, <1>3, <3>1
      <4>2. Open(st.last) >= 1  BY <4>1 DEF GoodArray, Nested
      <4>3. st.open = Open(st.last) /\ st.open \in Int  BY <1>2 DEF StateKnown, ReaderState
      <4> QED  BY <4>2, <4>3
    <3> QED  BY <3>1
  <2>2. From(u) \in input[u].start..input[u].text  BY <1>3, <1>4, <1>9
  <2>3. ASSUME NEW j \in 1..Min2(Len(Rest), input[u].end - From(u) + 1)
        PROVE  Rest[j] = From(u) + j - 1
    <3>1. j \in Nat /\ j >= 1 /\ j <= Len(Rest) /\ j <= input[u].end - pos
      BY <1>3, <1>4, <1>8, <1>9 DEF Min2
    <3>2. j \in 1..unread
      <4>1. input[u].end - pos <= unread \/ Len(Rest) <= unread  BY <1>6, <1>7, <1>8
      <4> QED  BY <1>3, <1>4, <1>6, <1>8, <3>1, <4>1
    <3>3. Rest[j] = pos + j  BY <1>6, <1>8, <3>1, <3>2
    <3> QED  BY <1>3, <1>9, <3>1, <3>3
  <2> QED  BY <1>1, <1>10, <2>1, <2>2, <2>3 DEF AtToken, Stands
<1>r. DOMAIN Rest = 1..Len(Rest)
  <2>1. Rest \in Seq(Int)  BY SubSeqProperties DEF Rest, Types, Reader
  <2> QED  BY <2>1
<1>f. PICK fin : fin = input[u].end  OBVIOUS
<1>n. fin \in Nat /\ fin >= pos + 1 /\ fin - pos \in Nat /\ fin - pos >= 1
  BY <1>3, <1>4, <1>f
<1>a. Ahead(u) = fin - pos  BY <1>3, <1>9, <1>f, <1>n DEF Ahead
<1>11. ASSUME isFinalBlock PROVE ~Blank /\ Fits(u)
  <2>1. fin - pos <= unread  BY <1>7, <1>11, <1>f
  <2>2. fin - pos \in 1..unread /\ pos + (fin - pos) = fin  BY <1>3, <1>6, <1>n, <2>1
  <2>3. reader.at + (fin - pos) \in 1..Len(buffer) /\ buffer[reader.at + (fin - pos)] = fin
    BY <1>6, <2>2
  <2>4. fin - pos <= Len(Rest)  BY <1>2, <1>8, <1>n, <2>3
  <2>5. fin - pos \in 1..Len(Rest)  BY <1>8, <1>n, <2>4
  <2>6. Rest[fin - pos] = fin  BY <1>8, <2>3, <2>5
  <2>7. fin \in input[u].text..input[u].end  BY <1>4, <1>f
  <2>8. ~WhiteSpace(fin)  BY <1>3, <2>7, TokenIsNotBlank
  <2>9. ~Blank  BY <1>r, <2>5, <2>6, <2>8 DEF Blank
  <2>10. Ahead(u) <= Len(Rest)  BY <1>a, <2>4
  <2> QED  BY <1>11, <2>9, <2>10 DEF Fits
<1>12. NeedsMore => ~isFinalBlock
  <2> SUFFICES ASSUME NeedsMore, isFinalBlock PROVE FALSE  OBVIOUS
  <2>1. PICK v \in DOMAIN input : AtToken(v) /\ ~Fits(v)  BY <1>11 DEF NeedsMore
  <2>2. v = u  BY <1>1, <2>1, AtNext DEF GoodArray
  <2> QED  BY <1>11, <2>1, <2>2
\* What stands behind a number is the beginning of the next token.
<1>13. ASSUME input[u].kind = "number", Ahead(u) < Len(Rest)
       PROVE  Separates(Rest[Ahead(u) + 1])
  <2>1. u # Len(input)
    <3>1. input[Len(input)].kind = "]"  BY GoodFacts
    <3> QED  BY <1>13, <3>1
  <2>2. PICK v : v = u + 1  OBVIOUS
  <2>3. v \in 1..Len(input) /\ v \in DOMAIN input /\ v > 1 /\ v - 1 = u /\ v # 1
    <3>1. Len(input) \in Nat /\ DOMAIN input = 1..Len(input)  BY TokenFacts
    <3>2. u \in Nat /\ u >= 1 /\ u <= Len(input)  BY <1>3, <3>1
    <3>3. v \in 1..Len(input) /\ v > 1 /\ v - 1 = u  BY <2>1, <2>2, <3>1, <3>2
    <3> QED  BY <3>1, <3>3
  <2>4. /\ input[v].start \in Nat /\ input[v].text \in Nat /\ input[v].end \in Nat
        /\ input[v].start <= input[v].text /\ input[v].text <= input[v].end
        /\ input[v].start = fin + 1
    BY <1>f, <2>3, TokenFacts
  <2>5. fin + 1 \in input[v].start..input[v].end  BY <1>n, <2>4
  <2>6. fin + 1 < input[v].text \/ input[v].kind \in Closing
    <3>1. input[v].start < input[v].text \/ input[v].kind \in Closing
      BY <1>13, <2>3 DEF Types, LaidOut
    <3> QED  BY <2>4, <3>1
  <2>7. Separates(fin + 1)  BY <2>3, <2>5, <2>6 DEF Separates
  <2>8. fin - pos + 1 \in 1..unread
    <3>1. CASE delivered = Bytes
      <4>1. input[v].end <= TextDelivered  BY <2>3, <3>1, AllDelivered DEF GoodArray
      <4>2. fin + 1 <= TextDelivered  BY <1>6, <1>n, <2>4, <4>1
      <4> QED  BY <1>3, <1>5, <1>6, <1>n, <4>2
    <3>2. CASE unread = Len(buffer) - reader.at  BY <1>6, <1>8, <1>13, <1>a, <1>n, <3>2
    <3> QED  BY <1>6, <3>1, <3>2
  <2>9. fin - pos + 1 \in 1..Len(Rest)  BY <1>8, <1>13, <1>a, <1>n
  <2>10. buffer[reader.at + (fin - pos + 1)] = pos + (fin - pos + 1)  BY <1>6, <2>8
  <2>11. Rest[fin - pos + 1] = fin + 1
    <3>1. pos + (fin - pos + 1) = fin + 1  BY <1>3, <1>n
    <3> QED  BY <1>8, <2>9, <2>10, <3>1
  <2> QED  BY <1>a, <2>7, <2>11
<1>14. ~NeedsMore => \E v \in DOMAIN input : Reads(v)
  <2> SUFFICES ASSUME ~NeedsMore PROVE Reads(u)  BY <1>3
  <2>1. Rest # <<>>
    <3>1. ~Blank  BY DEF NeedsMore
    <3> QED  BY <1>8, <1>r, <3>1 DEF Blank
  <2>2. AtToken(u) /\ Fits(u)  BY <1>3, <1>10, <2>1 DEF NeedsMore
  <2>3. Ahead(u) = Len(Rest) \/ Ahead(u) < Len(Rest)
    <3>1. Ahead(u) <= Len(Rest) \/ Ahead(u) < Len(Rest)  BY <2>2 DEF Fits
    <3>2. Ahead(u) \in Nat  BY <1>a, <1>n
    <3> QED  BY <1>8, <3>1, <3>2
  <2>4. input[u].kind = "number" => Ahead(u) = Len(Rest) \/ Separates(Rest[Ahead(u) + 1])
    BY <1>13, <2>3
  <2> QED  BY <1>3, <2>2, <2>4 DEF Reads
<1> QED  BY <1>12, <1>14 DEF Throws

(* A token that is read is the next one, and the reader counts what is     *)
(* open behind it.                                                         *)
LEMMA ReadsNext ==
    ASSUME Types, WholeText, Holds(reader), NEW u \in DOMAIN input, Reads(u)
    PROVE  /\ u = reader.state.last + 1 /\ u \in 1..Len(input) /\ reader.state.last \in Nat
           /\ After(u).state.last = u /\ After(u).state.open = Open(u)
           /\ Open(u - 1) \in Int /\ Open(u) \in Int
           /\ Open(u) = Open(u - 1)
                + (IF input[u].kind \in Opening THEN 1
                   ELSE IF input[u].kind \in Closing THEN -1 ELSE 0)
<1>1. u = reader.state.last + 1  BY AtNext DEF Reads
<1>2. reader.state.last \in Nat /\ u \in 1..Len(input) /\ u \in Nat \ {0}
  BY TokenFacts DEF Types, Reader, ReaderState
<1>3. StateKnown(After(u).state)  BY AfterHolds DEF Holds
<1>4. After(u).state.last = u  BY DEF After
<1>5. After(u).state.open = Open(u)  BY <1>3, <1>4 DEF StateKnown
<1>6. /\ Open(u - 1) \in Int
      /\ Open(u) = Open(u - 1)
                + (IF input[u].kind \in Opening THEN 1
                   ELSE IF input[u].kind \in Closing THEN -1 ELSE 0)
  BY <1>2, OpenStep
<1> QED  BY <1>1, <1>2, <1>4, <1>5, <1>6

(* Once the stream is over, sliding the buffer takes nothing from it.      *)
LEMMA StillDelivered ==
    ASSUME Types, NEW r \in Reader, CacheStateForLaterUse(r), UNCHANGED streamVars,
           delivered = Bytes
    PROVE  delivered' = Bytes'
<1>1. PICK count : count = ReadBytes(delivered, r.at) /\ delivered' = delivered + count
  BY DEF CacheStateForLaterUse
<1>2. r.at \in Nat /\ delivered \in Nat /\ Bytes' = Bytes
  BY DeliveryFacts, TextStill DEF Reader
<1>3. count = 0  BY <1>1, <1>2 DEF ReadBytes, Min2
<1> QED  BY <1>1, <1>2, <1>3

(* The writer has open what the tokens given to it have opened.            *)
LEMMA WriterStep ==
    ASSUME item \in Seq(Nat), NEW u \in Nat, UNCHANGED input, item' = Append(item, u)
    PROVE  /\ WriterOpen \in Int
           /\ WriterOpen' = WriterOpen
                + (IF input[u].kind \in Opening THEN 1
                   ELSE IF input[u].kind \in Closing THEN -1 ELSE 0)
<1> DEFINE written(K) == {j \in DOMAIN item : input[item[j]].kind \in K}
           writtenNow(K) == {j \in DOMAIN item' : input[item'[j]].kind \in K}
<1>1. PICK n : n = Len(item)  OBVIOUS
<1>2. /\ n \in Nat /\ DOMAIN item = 1..n /\ DOMAIN item' = 1..n + 1 /\ item'[n + 1] = u
      /\ \A j \in 1..n : item'[j] = item[j]
  BY <1>1
<1>3. ASSUME NEW K
      PROVE  /\ Cardinality(written(K)) \in Nat
             /\ Cardinality(writtenNow(K)) =
                   Cardinality(written(K)) + IF input[u].kind \in K THEN 1 ELSE 0
  <2>1. IsFiniteSet(1..n)  BY <1>2, FS_Interval
  <2>2. written(K) \in SUBSET (1..n)  BY <1>2
  <2>3. IsFiniteSet(written(K)) /\ Cardinality(written(K)) \in Nat
    BY <2>1, <2>2, FS_Subset, FS_CardinalityType
  <2>4. n + 1 \notin written(K)  BY <1>2, <2>2
  <2>5. DOMAIN item' = DOMAIN item \cup {n + 1}  BY <1>2
  <2>6. writtenNow(K) = IF input[u].kind \in K THEN written(K) \cup {n + 1} ELSE written(K)
    BY <1>2, <2>5
  <2>7. Cardinality(written(K) \cup {n + 1}) = Cardinality(written(K)) + 1
    BY <2>3, <2>4, FS_AddElement
  <2> HIDE DEF written, writtenNow
  <2> QED  BY <2>3, <2>6, <2>7
<1>4. WriterOpen = Cardinality(written(Opening)) - Cardinality(written(Closing))
  BY DEF WriterOpen
<1>5. WriterOpen' = Cardinality(writtenNow(Opening)) - Cardinality(writtenNow(Closing))
  BY DEF WriterOpen, Opening, Closing
<1>6. input[u].kind \notin Opening \/ input[u].kind \notin Closing  BY DEF Opening, Closing
<1> HIDE DEF written, writtenNow
<1> QED  BY <1>3, <1>4, <1>5, <1>6

(* Nothing is open before the first token is written.                      *)
LEMMA WriterBegins ==
    ASSUME NEW u \in Nat, UNCHANGED input, item' = <<u>>, input[u].kind \in Opening
    PROVE  WriterOpen' = 1
<1>1. input[u].kind \notin Closing  BY DEF Opening, Closing
<1>2. DOMAIN item' = {1} /\ item'[1] = u  OBVIOUS
<1>3. {j \in DOMAIN item' : input'[item'[j]].kind \in Opening} = {1}  BY <1>2
<1>4. {j \in DOMAIN item' : input'[item'[j]].kind \in Closing} = {}  BY <1>1, <1>2
<1>5. Cardinality({1}) = 1 /\ Cardinality({}) = 0  BY FS_Singleton, FS_EmptySet
<1>6. WriterOpen' = 1 - 0  BY <1>3, <1>4, <1>5 DEF WriterOpen
<1> QED  BY <1>6
----------------------------------------------------------------------------
(* Each step keeps what is known, and is a step of the abstract splitter.  *)
AsAbstract == [Abstract!AbstractNext]_(Abstract!abstractVars)

(* Nothing is known before the first byte is taken.                        *)
LEMMA SplitInit == Init /\ GoodArray => SplitInv
<1> SUFFICES ASSUME Init, GoodArray PROVE SplitInv  OBVIOUS
<1>1. /\ yielded = <<>> /\ result = "none" /\ pc = "new" /\ ~isFinalBlock
  BY DEF Init
<1>2. yielded \in Seq(Seq(Nat))  BY <1>1
<1> QED  BY <1>1, <1>2, InitInv DEF SplitInv, Splitting

(* The stream is not empty, and nothing is read yet.                       *)
LEMMA SplitInitializeBuffer ==
    ASSUME SplitInv, InitializeBuffer
    PROVE  Splitting' /\ AsAbstract
<1>1. /\ pc = "new" /\ UNCHANGED <<streamVars, isFinalBlock, cached, reader, item, yielded>>
      /\ IF size = 0 THEN TRUE ELSE pc' = "start" /\ UNCHANGED result
  BY DEF InitializeBuffer
<1>2. pc' = "start" /\ UNCHANGED result  BY <1>1, GoodFacts DEF SplitInv, IInv
<1>3. reader.state.last = 0  BY <1>1 DEF SplitInv, IInv, Types, NewReader, Fresh
<1>4. Splitting'  BY <1>1, <1>2, <1>3 DEF SplitInv, Splitting
<1>5. UNCHANGED Abstract!abstractVars  BY <1>1, <1>2 DEF streamVars, Abstract!abstractVars
<1> QED  BY <1>4, <1>5 DEF AsAbstract

(* The next call goes on behind the item given last.                       *)
LEMMA SplitReadNextItem ==
    ASSUME SplitInv, ReadNextItem
    PROVE  Splitting' /\ AsAbstract
<1>1. /\ pc = "idle" /\ pc' = "search" /\ reader' = NewReader(cached)
      /\ UNCHANGED <<streamVars, delivered, isFinalBlock, cached, yielded, result>>
  BY DEF ReadNextItem
<1>2. Bytes' = Bytes /\ input' = input  BY <1>1, TextStill DEF streamVars
<1>3. reader'.state.last = cached'.last  BY <1>1 DEF NewReader
<1>4. PICK k : k = cached.last  OBVIOUS
<1>5. BetweenItems(k) /\ BetweenItems(k)'
  BY <1>1, <1>2, <1>4, GoodStill DEF SplitInv, Splitting, BetweenItems
<1>6. BetweenItems(cached.last)'  BY <1>1, <1>4, <1>5 DEF BetweenItems
<1>7. Splitting'  BY <1>1, <1>2, <1>3, <1>6 DEF SplitInv, Splitting
<1>8. UNCHANGED Abstract!abstractVars  BY <1>1 DEF streamVars, Abstract!abstractVars
<1> QED  BY <1>7, <1>8 DEF AsAbstract

(* The refill goes on with the same token, and knows when it was the last. *)
LEMMA SplitGetMoreBytes ==
    ASSUME SplitInv, GetMoreBytesFromStream
    PROVE  Splitting' /\ AsAbstract
<1>1. /\ pc \in {"start", "search", "write"} /\ pc' = pc
      /\ UNCHANGED <<streamVars, item, yielded, result>>
  BY DEF GetMoreBytesFromStream
<1>2. PICK r, wanted, count :
         /\ r \in Stalled /\ wanted \in Int /\ count = ReadBytes(delivered, wanted)
         /\ delivered' = delivered + count /\ isFinalBlock' = (count # wanted)
         /\ cached' = r.state /\ reader' = NewReader(r.state)
  <2>1. PICK r \in Stalled :
           LET left == Len(buffer) - r.at
               wanted == GrownLength(left) - left
               count == ReadBytes(delivered, wanted)
           IN  /\ delivered' = delivered + count /\ isFinalBlock' = (count # wanted)
               /\ cached' = r.state /\ reader' = NewReader(r.state)
    BY DEF GetMoreBytesFromStream
  <2>2. r \in Reader  BY <1>1, StalledType DEF SplitInv, IInv
  <2>3. Len(buffer) - r.at \in Int /\ GrownLength(Len(buffer) - r.at) \in Int
    BY <2>2, DeliveryFacts DEF SplitInv, IInv, Reader, GrownLength
  <2> QED  BY <2>1, <2>3
<1>3. /\ Bytes' = Bytes /\ input' = input /\ GoodArray
      /\ delivered \in Nat /\ Bytes \in Nat
  BY <1>1, TextStill, DeliveryFacts DEF streamVars, SplitInv, IInv
<1>4. ASSUME isFinalBlock' PROVE delivered' = Bytes'
  <2>1. count # wanted /\ count = ReadBytes(delivered, wanted)  BY <1>2, <1>4
  <2>2. count = Bytes - delivered  BY <2>1 DEF ReadBytes, Min2
  <2>3. delivered' = delivered + count  BY <1>2
  <2> QED  BY <1>3, <2>2, <2>3
<1>5. r.state.last = reader.state.last
  <2>1. reader.state \in ReaderState  BY DEF SplitInv, IInv, Types, Reader
  <2>2. \A m : [reader.state EXCEPT !.mid = m].last = reader.state.last
    BY <2>1 DEF ReaderState
  <2>3. r = reader \/ \E n, m : r = Consumed(n, m)  BY <1>2, StalledCases, Zenon
  <2>4. CASE r = reader  BY <2>4
  <2>5. ASSUME NEW n, NEW m, r = Consumed(n, m)
        PROVE  r.state.last = reader.state.last
    <3>1. r.state = [reader.state EXCEPT !.mid = m]  BY <2>5 DEF Consumed
    <3> QED  BY <2>2, <3>1
  <2> QED  BY <2>3, <2>4, <2>5
<1>6. PICK k : k = reader.state.last  OBVIOUS
<1>7. reader'.state.last = k /\ cached'.last = k  BY <1>2, <1>5, <1>6 DEF NewReader
<1>8. ASSUME pc = "search" PROVE BetweenItems(cached.last)'
  <2>1. BetweenItems(k)  BY <1>6, <1>8 DEF SplitInv, Splitting
  <2>2. BetweenItems(k)'  BY <1>1, <1>3, <2>1, GoodStill DEF BetweenItems
  <2> QED  BY <1>7, <2>2 DEF BetweenItems
<1>9. ASSUME pc = "write" PROVE result' = "none" /\ InItem(reader.state.last)'
  <2>1. InItem(k) /\ result = "none"  BY <1>6, <1>9 DEF SplitInv, Splitting
  <2>2. WriterOpen' = WriterOpen  BY <1>1, <1>3 DEF WriterOpen
  <2>3. InItem(k)'  BY <1>1, <1>3, <2>1, <2>2, GoodStill DEF InItem
  <2> QED  BY <1>1, <1>7, <2>1, <2>3 DEF InItem
<1>10. result' = "end" => cached'.last = Len(input') - 1
  BY <1>1, <1>3, <1>6, <1>7 DEF SplitInv, Splitting
<1>11. Splitting'
  BY <1>1, <1>4, <1>6, <1>7, <1>8, <1>9, <1>10 DEF SplitInv, Splitting
<1>12. UNCHANGED Abstract!abstractVars  BY <1>1 DEF streamVars, Abstract!abstractVars
<1> QED  BY <1>11, <1>12 DEF AsAbstract

(* The first token is the bracket of the root.                             *)
LEMMA SplitReadStartArrayToken ==
    ASSUME SplitInv, ReadStartArrayToken
    PROVE  Splitting' /\ AsAbstract
<1>1. /\ pc = "start" /\ UNCHANGED <<streamVars, isFinalBlock, item, yielded>>
  BY DEF ReadStartArrayToken
<1>2. Types /\ WholeText /\ Holds(reader)
  BY <1>1, GoodFacts DEF SplitInv, IInv
<1>3. PICK u \in DOMAIN input :
         /\ Reads(u) /\ reader' = After(u)
         /\ input[u].kind = "[" =>
               CacheStateForLaterUse(After(u)) /\ pc' = "idle" /\ UNCHANGED result
  BY <1>1 DEF ReadStartArrayToken
<1>4. u = 1 /\ After(u).state.last = 1
  <2>1. reader.state.last = 0  BY <1>1 DEF SplitInv, Splitting
  <2> QED  BY <1>2, <1>3, <2>1, ReadsNext
<1>5. /\ input[1].kind = "[" /\ Open(1) = 1 /\ Len(input) \in Nat /\ Len(input) >= 2
  BY <1>2, GoodFacts DEF SplitInv
<1>6. /\ CacheStateForLaterUse(After(1)) /\ pc' = "idle" /\ UNCHANGED result
      /\ cached'.last = 1
  BY <1>3, <1>4, <1>5 DEF CacheStateForLaterUse
<1>7. Begun(1) = 0
  <2>1. 1 \notin Starts  BY <1>5 DEF Starts
  <2>2. Starts \subseteq 1..Len(input)  BY <1>2, BegunFacts
  <2>3. ASSUME NEW v \in Starts, v <= 1 PROVE FALSE
    <3>1. v \in Nat /\ v >= 1 /\ v # 1  BY <2>1, <2>2
    <3> QED  BY <2>3, <3>1
  <2>4. {v \in Starts : v <= 1} = {}  BY <2>3
  <2> QED  BY <2>4, FS_EmptySet DEF Begun
<1>8. yielded = <<>> /\ result = "none"  BY <1>1 DEF SplitInv, Splitting
<1>9. input' = input  BY <1>1 DEF streamVars
<1>10. BetweenItems(1)'
  <2>1. Open(1)' = 1 /\ Begun(1)' = 0  BY <1>1, <1>5, <1>7, GoodStill
  <2>2. 1 \in 1..Len(input') - 1 /\ Len(yielded') = 0  BY <1>1, <1>5, <1>8, <1>9
  <2> QED  BY <2>1, <2>2 DEF BetweenItems
<1>11. BetweenItems(cached.last)'  BY <1>6, <1>10 DEF BetweenItems
<1>12. isFinalBlock' => delivered' = Bytes'
  <2>1. After(1) \in Reader  BY <1>2, <1>3, <1>4, AfterType
  <2> QED  BY <1>1, <1>2, <1>6, <2>1, StillDelivered DEF SplitInv, Splitting
<1>13. Splitting'  BY <1>1, <1>6, <1>8, <1>11, <1>12 DEF SplitInv, Splitting
<1>14. UNCHANGED Abstract!abstractVars
  BY <1>1, <1>6 DEF streamVars, Abstract!abstractVars
<1> QED  BY <1>13, <1>14 DEF AsAbstract

(* Between items comes the next item, or the bracket of the root.          *)
LEMMA SplitSearchStartOfObject ==
    ASSUME SplitInv, SearchStartOfObject
    PROVE  Splitting' /\ AsAbstract
<1>1. /\ pc = "search"
      /\ UNCHANGED <<streamVars, delivered, isFinalBlock, cached, yielded>>
  BY DEF SearchStartOfObject
<1>2. /\ Types /\ WholeText /\ Holds(reader)
      /\ Bytes' = Bytes /\ input' = input /\ size' = size
  BY <1>1, GoodFacts, TextStill DEF SplitInv, IInv, streamVars
<1>3. PICK u \in DOMAIN input :
         /\ Reads(u) /\ reader' = After(u)
         /\ input[u].kind = "{" => pc' = "write" /\ item' = <<u>> /\ UNCHANGED result
         /\ input[u].kind = "]" => pc' = "idle" /\ result' = "end"
  BY <1>1 DEF SearchStartOfObject
<1>4. PICK k : k = cached.last  OBVIOUS
<1>5. /\ reader.state.last = k /\ BetweenItems(k)
      /\ yielded \in Seq(Seq(Nat)) /\ result \in {"none", "end"}
      /\ result = "end" => k = Len(input) - 1
      /\ isFinalBlock => delivered = Bytes
  BY <1>1, <1>4 DEF SplitInv, Splitting
<1>6. /\ u = k + 1 /\ u \in 1..Len(input) /\ k \in Nat /\ k >= 1 /\ Open(k) = 1
      /\ Begun(k) = Len(yielded) /\ reader'.state.last = u
      /\ Open(u) = 1 + (IF input[u].kind \in Opening THEN 1
                        ELSE IF input[u].kind \in Closing THEN -1 ELSE 0)
  <2>1. /\ u = reader.state.last + 1 /\ u \in 1..Len(input) /\ reader.state.last \in Nat
        /\ After(u).state.last = u
        /\ Open(u) = Open(u - 1)
             + (IF input[u].kind \in Opening THEN 1
                ELSE IF input[u].kind \in Closing THEN -1 ELSE 0)
    BY <1>2, <1>3, ReadsNext
  <2>2. k \in 1..Len(input) - 1 /\ Open(k) = 1 /\ Begun(k) = Len(yielded)
    BY <1>5 DEF BetweenItems
  <2>3. u = k + 1 /\ k \in Nat /\ k >= 1 /\ u - 1 = k
    <3>1. reader.state.last = k  BY <1>5
    <3> QED  BY <2>1, <2>2, <3>1
  <2>4. reader'.state.last = u  BY <1>3, <2>1
  <2>5. Open(u - 1) = 1  BY <2>2, <2>3
  <2> QED  BY <2>1, <2>2, <2>3, <2>4, <2>5
<1>7. /\ Len(input) \in Nat /\ input[Len(input)].kind = "]"
      /\ \A v \in 2..Len(input) - 1 : Open(v - 1) = 1 => input[v].kind = "{"
  BY <1>2, GoodFacts DEF SplitInv
<1>8. CASE u = Len(input)
  <2>1. pc' = "idle" /\ result' = "end" /\ k = Len(input) - 1
    <3>1. u = k + 1 /\ k \in Nat  BY <1>6
    <3>2. input[u].kind = "]"  BY <1>7, <1>8
    <3> QED  BY <1>3, <1>8, <3>1, <3>2
  <2>2. BetweenItems(k)'  BY <1>1, <1>2, <1>5, GoodStill DEF BetweenItems
  <2>3. BetweenItems(cached.last)'  BY <1>1, <1>4, <2>2 DEF BetweenItems
  <2>4. Splitting'
    BY <1>1, <1>2, <1>4, <1>5, <2>1, <2>3 DEF Splitting
  <2>5. Len(yielded) = Abstract!ItemCount(input)
    <3>1. u \notin Starts  BY <1>7, <1>8 DEF Starts
    <3>2. Starts \subseteq 1..Len(input)  BY <1>2, BegunFacts
    <3>3. ASSUME NEW v \in Starts PROVE v <= k
      <4>1. v \in 1..Len(input) /\ v # u  BY <3>1, <3>2
      <4> QED  BY <1>6, <1>8, <4>1
    <3>4. {v \in Starts : v <= k} = Starts  BY <3>3
    <3> QED  BY <1>6, <3>4, SameCount DEF Begun
  <2>6. CASE result = "none"
    <3>1. Abstract!End
      BY <1>1, <1>2, <2>1, <2>5, <2>6 DEF Abstract!End, SplitInv, GoodArray
    <3> QED  BY <2>4, <3>1 DEF AsAbstract, Abstract!AbstractNext
  <2>7. CASE result = "end"
    <3>1. UNCHANGED Abstract!abstractVars
      BY <1>1, <1>2, <2>1, <2>7 DEF Abstract!abstractVars
    <3> QED  BY <2>4, <3>1 DEF AsAbstract
  <2> QED  BY <1>5, <2>6, <2>7
<1>9. CASE u # Len(input)
  <2>1. u \in 2..Len(input) - 1 /\ u - 1 = k
    <3>1. u = k + 1 /\ k \in Nat /\ k >= 1 /\ u \in 1..Len(input)  BY <1>6
    <3>2. Len(input) \in Nat  BY <1>7
    <3> QED  BY <1>9, <3>1, <3>2
  <2>2. input[u].kind = "{"  BY <1>6, <1>7, <2>1
  <2>3. pc' = "write" /\ item' = <<u>> /\ UNCHANGED result  BY <1>3, <2>2
  <2>4. result = "none"
    <3>1. Len(input) \in Nat  BY <1>7
    <3>2. k # Len(input) - 1  BY <1>9, <2>1, <3>1
    <3> QED  BY <1>5, <3>2
  <2>5. input[u].kind \in Opening  BY <2>2 DEF Opening
  <2>6. Open(u) = 2  BY <1>6, <2>5
  <2>7. u \in Starts  BY <2>2, <2>6 DEF Starts
  <2>8. Begun(u) = Len(yielded) + 1  BY <1>2, <1>6, <2>7, BegunFacts
  <2>9. WriterOpen' = 1
    <3>1. u \in Nat  BY <1>6
    <3> QED  BY <1>2, <2>3, <2>5, <3>1, WriterBegins
  <2>10. InItem(u)'
    <3>1. u \in Starts' /\ Open(u)' = 2 /\ Begun(u)' = Len(yielded') + 1
      BY <1>1, <2>6, <2>7, <2>8, GoodStill
    <3>2. u <= u /\ u < Len(input')  BY <1>2, <2>1
    <3>3. \A w \in u..u : Open(w)' >= 2
      <4>1. \A w \in u..u : w = u  BY <2>1
      <4> QED  BY <3>1, <4>1
    <3>4. item' = [j \in 1..u - u + 1 |-> u + j - 1]
      <4>1. u - u + 1 = 1 /\ u + 1 - 1 = u  BY <2>1
      <4>2. DOMAIN <<u>> = 1..1 /\ <<u>>[1] = u  OBVIOUS
      <4>3. <<u>> = [j \in 1..1 |-> u + j - 1]  BY <4>1, <4>2
      <4> QED  BY <2>3, <4>1, <4>3
    <3>5. WriterOpen' = Open(u)' - 1
      <4>1. 1 = 2 - 1  OBVIOUS
      <4> QED  BY <2>9, <3>1, <4>1
    <3> QED  BY <3>1, <3>2, <3>3, <3>4, <3>5 DEF InItem
  <2>11. InItem(reader.state.last)'  BY <1>6, <2>10 DEF InItem
  <2>12. Splitting'
    BY <1>1, <1>2, <1>5, <2>3, <2>4, <2>11 DEF Splitting
  <2>13. UNCHANGED Abstract!abstractVars
    BY <1>1, <1>2, <2>3 DEF Abstract!abstractVars
  <2> QED  BY <2>12, <2>13 DEF AsAbstract
<1> QED  BY <1>8, <1>9

(* Within an item every token belongs to it; the first that closes the     *)
(* item's own bracket is a brace, and completes what the next object is.   *)
LEMMA SplitWriteNextItem ==
    ASSUME SplitInv, WriteNextItem
    PROVE  Splitting' /\ AsAbstract
<1>1. pc = "write" /\ UNCHANGED <<streamVars, isFinalBlock>>
  BY DEF WriteNextItem
<1>2. /\ Types /\ WholeText /\ Holds(reader)
      /\ Bytes' = Bytes /\ input' = input /\ size' = size
  BY <1>1, GoodFacts, TextStill DEF SplitInv, IInv, streamVars
<1>3. PICK u \in DOMAIN input :
         /\ Reads(u) /\ reader' = After(u)
         /\ WriterOpen # 0 =>
               /\ item' = Append(item, u) /\ UNCHANGED result
               /\ IF EndsItem(u)
                  THEN /\ yielded' = Append(yielded, item')
                       /\ CacheStateForLaterUse(After(u))
                       /\ pc' = "idle"
                  ELSE UNCHANGED <<yielded, buffer, delivered, cached, pc>>
  BY <1>1 DEF WriteNextItem
<1>4. PICK k : k = reader.state.last  OBVIOUS
<1>5. /\ yielded \in Seq(Seq(Nat)) /\ result = "none"
      /\ isFinalBlock => delivered = Bytes
      /\ InItem(k)
  BY <1>1, <1>4 DEF SplitInv, Splitting
<1>6. PICK first \in Starts :
         /\ first <= k /\ k < Len(input)
         /\ \A w \in first..k : Open(w) >= 2
         /\ Begun(first) = Len(yielded) + 1
         /\ item = [j \in 1..k - first + 1 |-> first + j - 1]
         /\ WriterOpen = Open(k) - 1
  BY <1>5 DEF InItem
<1>7. /\ u = k + 1 /\ u - 1 = k /\ k \in Nat /\ u \in 1..Len(input)
      /\ After(u).state.last = u /\ After(u).state.open = Open(u)
      /\ Open(k) \in Int /\ Open(u) \in Int
  <2>1. /\ u = reader.state.last + 1 /\ u \in 1..Len(input) /\ reader.state.last \in Nat
        /\ After(u).state.last = u /\ After(u).state.open = Open(u)
        /\ Open(u - 1) \in Int /\ Open(u) \in Int
    BY <1>2, <1>3, ReadsNext
  <2>2. u - 1 = k  BY <1>4, <2>1
  <2> QED  BY <1>4, <2>1, <2>2
<1>8. Open(u) = Open(k)
         + (IF input[u].kind \in Opening THEN 1
            ELSE IF input[u].kind \in Closing THEN -1 ELSE 0)
  <2>1. Open(u) = Open(u - 1)
         + (IF input[u].kind \in Opening THEN 1
            ELSE IF input[u].kind \in Closing THEN -1 ELSE 0)
    BY <1>2, <1>3, ReadsNext
  <2> QED  BY <1>7, <2>1
<1>9. first \in 1..Len(input) /\ Len(input) \in Nat /\ Open(first) = 2
  BY <1>2, BegunFacts, TokenFacts DEF Starts
<1>b. input[first].kind = "{"  BY DEF Starts
<1>10. Open(k) >= 2
  <2>1. k \in first..k  BY <1>6, <1>7, <1>9
  <2> QED  BY <1>6, <2>1
<1>11. PICK n : n = k - first + 1 /\ n \in Nat  BY <1>6, <1>7, <1>9
<1>12. /\ item \in Seq(Nat) /\ Len(item) = n
       /\ Append(item, u) = [j \in 1..u - first + 1 |-> first + j - 1]
       /\ Append(item, u) \in Seq(Nat)
  <2>1. \A j \in 1..n : first + j - 1 \in Nat  BY <1>9
  <2>2. item = [j \in 1..n |-> first + j - 1]  BY <1>6, <1>11
  <2>3. item \in Seq(Nat) /\ Len(item) = n /\ u \in Nat  BY <1>7, <1>11, <2>1, <2>2
  <2>4. u - first + 1 = n + 1 /\ first + (n + 1) - 1 = u  BY <1>7, <1>9, <1>11
  <2>5. Append(item, u) \in Seq(Nat) /\ Append(item, u) \in [1..n + 1 -> Nat]
    <3>1. PICK longer : longer = Append(item, u)  OBVIOUS
    <3>2. longer \in Seq(Nat) /\ Len(longer) = n + 1  BY <2>3, <3>1
    <3>3. longer \in [1..n + 1 -> Nat]  BY <1>11, <3>2
    <3> QED  BY <3>1, <3>2, <3>3
  <2>6. \A j \in 1..n + 1 : Append(item, u)[j] = first + j - 1
    <3> TAKE j \in 1..n + 1
    <3>1. CASE j \in 1..n
      <4>1. Append(item, u)[j] = item[j]  BY <2>3, <3>1
      <4> QED  BY <2>2, <3>1, <4>1
    <3>2. CASE j = n + 1  BY <2>3, <2>4, <3>2
    <3>3. j \in 1..n \/ j = n + 1  BY <1>11
    <3> QED  BY <3>1, <3>2, <3>3
  <2>7. Append(item, u) = [j \in 1..n + 1 |-> first + j - 1]  BY <2>5, <2>6
  <2> QED  BY <2>3, <2>4, <2>5, <2>7
<1>13. WriterOpen # 0  BY <1>6, <1>7, <1>10
<1>14. /\ reader'.state.last = u /\ item' = Append(item, u) /\ UNCHANGED result
       /\ IF EndsItem(u)
          THEN /\ yielded' = Append(yielded, item')
               /\ CacheStateForLaterUse(After(u))
               /\ pc' = "idle"
          ELSE UNCHANGED <<yielded, buffer, delivered, cached, pc>>
  BY <1>3, <1>7, <1>13
<1>15. CASE EndsItem(u)
  <2>1. /\ yielded' = Append(yielded, item') /\ CacheStateForLaterUse(After(u))
        /\ pc' = "idle" /\ cached'.last = u
    BY <1>7, <1>14, <1>15 DEF CacheStateForLaterUse
  <2>2. Open(u) = 1
    <3>1. Open(u) <= 1  BY <1>7, <1>15 DEF EndsItem
    <3>2. Open(u) >= Open(k) - 1  BY <1>7, <1>8
    <3> QED  BY <1>7, <1>10, <3>1, <3>2
  <2>3. u \in 1..Len(input) - 1
    <3>1. Open(Len(input)) = 0  BY <1>2, GoodFacts DEF SplitInv
    <3>2. u # Len(input)  BY <2>2, <3>1
    <3> QED  BY <1>7, <1>9, <3>2
  <2>4. Begun(u) = Begun(first)
    <3>1. Starts \subseteq 1..Len(input)  BY <1>2, BegunFacts
    <3>2. ASSUME NEW v \in Starts, v <= u, ~(v <= first) PROVE FALSE
      <4>1. v \in Nat /\ v \in first + 1..u  BY <1>7, <1>9, <3>1, <3>2
      <4>2. Open(v) = 2 /\ input[v].kind \in Opening  BY DEF Starts, Opening
      <4>3. v # u  BY <2>2, <4>2
      <4>4. v \in Nat \ {0} /\ v - 1 \in first..k  BY <1>7, <1>9, <4>1, <4>3
      <4>5. Open(v) = Open(v - 1) + 1 /\ Open(v - 1) \in Int
        BY <4>2, <4>4, OpenStep
      <4>6. Open(v - 1) >= 2  BY <1>6, <4>4
      <4> QED  BY <4>2, <4>5, <4>6
    <3>3. \A v \in Starts : v <= first => v <= u
      <4> TAKE v \in Starts
      <4>1. v \in Nat  BY <3>1
      <4> QED  BY <1>6, <1>7, <1>9, <4>1
    <3>4. {v \in Starts : v <= u} = {v \in Starts : v <= first}  BY <3>2, <3>3
    <3> QED  BY <3>4 DEF Begun
  <2>5. item' \in Seq(Nat)  BY <1>12, <1>14
  <2>6. yielded' \in Seq(Seq(Nat)) /\ Len(yielded') = Len(yielded) + 1
    BY <1>5, <2>1, <2>5
  <2>7. BetweenItems(u)'
    <3>1. Open(u)' = 1 /\ Begun(u)' = Begun(first)  BY <1>1, <2>2, <2>4, GoodStill
    <3> QED  BY <1>2, <1>6, <2>3, <2>6, <3>1 DEF BetweenItems
  <2>8. BetweenItems(cached.last)'  BY <2>1, <2>7 DEF BetweenItems
  <2>9. isFinalBlock' => delivered' = Bytes'
    <3>1. After(u) \in Reader  BY <1>2, <1>3, AfterType
    <3> QED  BY <1>1, <1>2, <1>5, <2>1, <3>1, StillDelivered
  <2>10. Splitting'  BY <1>5, <1>14, <2>1, <2>6, <2>8, <2>9 DEF Splitting
  <2>11. item' = Abstract!Item(input, Len(yielded) + 1)
    <3>1. u \in first + 1..Len(input)  BY <1>6, <1>7, <1>9
    <3>2. ASSUME NEW w \in first..u - 1 PROVE Open(w) \in Int /\ Open(w) >= 2
      <4>1. w \in first..k /\ w \in 1..Len(input)  BY <1>6, <1>7, <1>9
      <4> QED  BY <1>2, <1>6, <4>1, GoodFacts DEF SplitInv
    <3>3. Abstract!Item(input, Begun(first)) = [j \in 1..u - first + 1 |-> first + j - 1]
      BY <1>2, <2>2, <3>1, <3>2, ItemFacts
    <3> QED  BY <1>6, <1>12, <1>14, <3>3
  <2>12. Len(yielded) < Abstract!ItemCount(input)
    <3>1. Begun(first) <= Cardinality(Starts) /\ Cardinality(Starts) \in Nat
      BY <1>2, BegunFacts, FS_CardinalityType
    <3>2. Len(yielded) \in Nat  BY <1>5
    <3> QED  BY <1>6, <3>1, <3>2, SameCount
  <2>13. Abstract!Yield
    BY <1>2, <1>5, <1>14, <2>1, <2>11, <2>12 DEF Abstract!Yield
  <2> QED  BY <2>10, <2>13 DEF AsAbstract, Abstract!AbstractNext
<1>16. CASE ~EndsItem(u)
  <2>1. UNCHANGED <<yielded, buffer, delivered, cached, pc>>  BY <1>14, <1>16
  <2>2. Open(u) >= 2
    <3>1. CASE input[u].kind \notin Closing  BY <1>7, <1>8, <1>10, <3>1
    <3>2. CASE input[u].kind = "}"
      <4>1. ~(After(u).state.open <= 1)  BY <1>16, <3>2 DEF EndsItem
      <4> QED  BY <1>7, <4>1
    <3>3. CASE input[u].kind = "]"
      <4>1. input[u].kind \in Closing /\ input[u].kind \notin Opening
        BY <3>3 DEF Closing, Opening
      <4>2. Open(u) = Open(k) - 1  BY <1>7, <1>8, <4>1
      <4>3. Open(u) # Open(first) - 1
        <5> SUFFICES ASSUME Open(u) = Open(first) - 1 PROVE FALSE  OBVIOUS
        <5>1. first \in DOMAIN input /\ first < u /\ input[first].kind \in Opening
          <6>1. first < u /\ first \in DOMAIN input  BY <1>2, <1>6, <1>7, <1>9, TokenFacts
          <6> QED  BY <1>b, <6>1 DEF Opening
        <5>2. \A w \in first..u - 1 : Open(w) >= Open(first)  BY <1>6, <1>7, <1>9
        <5>3. Nested  BY <1>2, GoodFacts DEF SplitInv
        <5>4. input[first].kind = "{" <=> input[u].kind = "}"
          BY <4>1, <5>1, <5>2, <5>3 DEF Nested
        <5> QED  BY <1>b, <3>3, <5>4
      <4>4. Open(first) - 1 = 1  BY <1>9
      <4> QED  BY <1>7, <1>10, <4>2, <4>3, <4>4
    <3> QED  BY <3>1, <3>2, <3>3 DEF Closing
  <2>3. u < Len(input)
    <3>1. Open(Len(input)) = 0  BY <1>2, GoodFacts DEF SplitInv
    <3>2. u # Len(input)  BY <2>2, <3>1
    <3> QED  BY <1>7, <1>9, <3>2
  <2>4. WriterOpen' = Open(u) - 1
    <3>1. u \in Nat  BY <1>7
    <3>2. /\ WriterOpen \in Int
          /\ WriterOpen' = WriterOpen
               + (IF input[u].kind \in Opening THEN 1
                  ELSE IF input[u].kind \in Closing THEN -1 ELSE 0)
      BY <1>2, <1>12, <1>14, <3>1, WriterStep
    <3> QED  BY <1>6, <1>7, <1>8, <3>2
  <2>5. \A w \in first..u : Open(w) >= 2
    <3> TAKE w \in first..u
    <3>1. CASE w = u  BY <2>2, <3>1
    <3>2. CASE w # u
      <4>1. w \in first..k  BY <1>7, <1>9, <3>2
      <4> QED  BY <1>6, <4>1
    <3> QED  BY <3>1, <3>2
  <2>6. InItem(u)'
    <3>1. /\ first \in Starts' /\ Begun(first)' = Len(yielded') + 1
          /\ \A w \in first..u : Open(w)' >= 2
          /\ WriterOpen' = Open(u)' - 1
      BY <1>1, <1>6, <2>1, <2>4, <2>5, GoodStill
    <3>2. first <= u /\ u < Len(input')  BY <1>2, <1>6, <1>7, <1>9, <2>3
    <3>3. item' = [j \in 1..u - first + 1 |-> first + j - 1]  BY <1>12, <1>14
    <3> QED  BY <3>1, <3>2, <3>3 DEF InItem
  <2>7. InItem(reader.state.last)'  BY <1>14, <2>6 DEF InItem
  <2>8. Splitting'
    BY <1>1, <1>2, <1>5, <1>14, <2>1, <2>7 DEF Splitting
  <2>9. UNCHANGED Abstract!abstractVars
    BY <1>2, <1>14, <2>1 DEF Abstract!abstractVars
  <2> QED  BY <2>8, <2>9 DEF AsAbstract
<1> QED  BY <1>15, <1>16

(* A good array is read to its end.                                        *)
LEMMA SplitReaderThrows == ASSUME SplitInv PROVE ~ReaderThrows
<1> SUFFICES ASSUME ReaderThrows PROVE FALSE  OBVIOUS
<1>1. pc \in {"start", "search", "write"} /\ Throws  BY DEF ReaderThrows
<1>2. /\ Types /\ WholeText /\ Holds(reader) /\ GoodArray
      /\ isFinalBlock => delivered = Bytes
  BY <1>1, GoodFacts DEF SplitInv, IInv, Splitting
<1>3. Len(input) \in Nat /\ Len(input) >= 2  BY <1>2, GoodFacts
<1>4. reader.state.last < Len(input)
  <2>1. CASE pc = "start"
    <3>1. reader.state.last = 0  BY <2>1 DEF SplitInv, Splitting
    <3> QED  BY <1>3, <3>1
  <2>2. CASE pc = "search"
    <3>1. reader.state.last \in 1..Len(input) - 1
      BY <2>2 DEF SplitInv, Splitting, BetweenItems
    <3> QED  BY <1>3, <3>1
  <2>3. CASE pc = "write"  BY <2>3 DEF SplitInv, Splitting, InItem
  <2> QED  BY <1>1, <2>1, <2>2, <2>3
<1> QED  BY <1>1, <1>2, <1>4, NeverThrows

(* Read has a token to give until the array is read.                       *)
LEMMA SplitReadReturnsFalse == SplitInv => ~ReadReturnsFalse
BY DEF SplitInv, Splitting, ReadReturnsFalse, AtEnd

(* A step that changes nothing.                                            *)
LEMMA SplitStutter == ASSUME SplitInv, UNCHANGED vars PROVE Splitting' /\ AsAbstract
<1>1. UNCHANGED streamVars /\ input' = input  BY DEF vars, streamVars
<1>2. Bytes' = Bytes  BY <1>1, TextStill
<1>3. PICK k, last : k = cached.last /\ last = reader.state.last  OBVIOUS
<1>4. BetweenItems(k) => BetweenItems(k)'
  BY <1>1, GoodStill DEF BetweenItems, vars
<1>5. InItem(last) => InItem(last)'
  <2>1. WriterOpen' = WriterOpen  BY <1>1 DEF WriterOpen, vars
  <2> QED  BY <1>1, <2>1, GoodStill DEF InItem, vars
<1>6. BetweenItems(cached.last) => BetweenItems(cached.last)'
  BY <1>3, <1>4 DEF BetweenItems, vars
<1>7. InItem(reader.state.last) => InItem(reader.state.last)'
  BY <1>3, <1>5 DEF InItem, vars
<1>8. Splitting'  BY <1>1, <1>2, <1>6, <1>7 DEF SplitInv, Splitting, vars
<1>9. UNCHANGED Abstract!abstractVars  BY DEF vars, streamVars, Abstract!abstractVars
<1> QED  BY <1>8, <1>9 DEF AsAbstract

(* Every step is a step of the abstract splitter.                          *)
LEMMA SplitNext == SplitInv /\ [Next]_vars => SplitInv' /\ AsAbstract
<1> SUFFICES ASSUME SplitInv, [Next]_vars PROVE SplitInv' /\ AsAbstract  OBVIOUS
<1>1. IInv'  BY NextInv DEF SplitInv
<1>2. UNCHANGED streamVars
  BY DEF Next, InitializeBuffer, ReadNextItem, GetMoreBytesFromStream, ReadStartArrayToken,
         ReadReturnsFalse, SearchStartOfObject, WriteNextItem, ReaderThrows, vars
<1>3. GoodArray'  BY <1>2, GoodStill DEF SplitInv
<1>4. Splitting' /\ AsAbstract
  BY SplitInitializeBuffer, SplitReadNextItem, SplitGetMoreBytes, SplitReadStartArrayToken,
     SplitReadReturnsFalse, SplitSearchStartOfObject, SplitWriteNextItem, SplitReaderThrows,
     SplitStutter DEF Next
<1> QED  BY <1>1, <1>3, <1>4 DEF SplitInv

(* However the tokens of an array of objects fall across the refills, and  *)
(* however little a read returns, JsonArraySplitter gives its objects one  *)
(* by one, each whole, then says that there is none left, and refuses      *)
(* nothing (ReadNextItem, lines 34-91).                                    *)
THEOREM SplitsGoodArrays == Spec /\ GoodArray => Abstract!AbstractSafe
<1>1. Init /\ GoodArray => Abstract!AbstractInit
  BY DEF Init, Abstract!AbstractInit
<1>2. Init /\ GoodArray => SplitInv  BY SplitInit
<1>3. SplitInv /\ [Next]_vars
         => SplitInv' /\ [Abstract!AbstractNext]_(Abstract!abstractVars)
  BY SplitNext DEF AsAbstract
<1> QED  BY <1>1, <1>2, <1>3, PTL DEF Spec, Safe, Abstract!AbstractSafe

(* Another item is the next one.                                           *)
LEMMA ItemsStep ==
    ASSUME SplitInv, SplitInv', AsAbstract, ReturnsEachItemOnce
    PROVE  ReturnsEachItemOnce'
<1>1. yielded \in Seq(Seq(Nat)) /\ yielded' \in Seq(Seq(Nat))  BY DEF SplitInv, Splitting
<1>2. CASE Abstract!Yield
  <2>1. PICK next, n : next = Abstract!Item(input, n + 1) /\ n = Len(yielded)  OBVIOUS
  <2>2. /\ yielded' = Append(yielded, next) /\ input' = input
        /\ n < Abstract!ItemCount(input)
    BY <1>2, <2>1 DEF Abstract!Yield
  <2>3. /\ n \in Nat /\ Len(yielded') = n + 1
        /\ DOMAIN yielded = 1..n /\ DOMAIN yielded' = 1..n + 1
        /\ yielded'[n + 1] = next /\ \A m \in 1..n : yielded'[m] = yielded[m]
    BY <1>1, <2>1, <2>2
  <2>4. Abstract!ItemCount(input) \in Nat
    BY SameCount, BegunFacts, FS_CardinalityType DEF SplitInv, IInv
  <2>5. Len(yielded') <= Abstract!ItemCount(input)  BY <2>2, <2>3, <2>4
  <2>6. \A m \in 1..n + 1 : yielded'[m] = Abstract!Item(input, m)
    <3> TAKE m \in 1..n + 1
    <3>1. m \in 1..n \/ m = n + 1  BY <2>3
    <3>2. CASE m \in 1..n  BY <2>3, <3>2 DEF ReturnsEachItemOnce
    <3>3. CASE m = n + 1  BY <2>1, <2>3, <3>3
    <3> QED  BY <3>1, <3>2, <3>3
  <2> QED  BY <2>2, <2>3, <2>5, <2>6 DEF ReturnsEachItemOnce
<1>3. CASE UNCHANGED <<input, yielded>>  BY <1>3 DEF ReturnsEachItemOnce
<1>4. Abstract!Yield \/ UNCHANGED <<input, yielded>>
  BY DEF AsAbstract, Abstract!AbstractNext, Abstract!End, Abstract!Refuse,
         Abstract!abstractVars
<1> QED  BY <1>2, <1>3, <1>4

(* What TLC finds violated behind a byte order mark with short reads, and  *)
(* by a stream that was cut, holds for every good array: each item given   *)
(* is the next one, and nothing is refused (ReadNextItem, lines 34-91).    *)
THEOREM GoodItemsAreGiven ==
    Spec /\ GoodArray => [](ReturnsEachItemOnce /\ SplitsWholeArrays)
<1>1. Init /\ GoodArray => SplitInv /\ ReturnsEachItemOnce
  <2> SUFFICES ASSUME Init, GoodArray PROVE SplitInv /\ ReturnsEachItemOnce  OBVIOUS
  <2>1. SplitInv  BY SplitInit
  <2>2. Abstract!ItemCount(input) \in Nat
    BY <2>1, SameCount, BegunFacts, FS_CardinalityType DEF SplitInv, IInv
  <2>3. yielded = <<>> /\ Len(yielded) = 0  BY DEF Init
  <2> QED  BY <2>1, <2>2, <2>3 DEF ReturnsEachItemOnce
<1>2. SplitInv /\ ReturnsEachItemOnce /\ [Next]_vars => SplitInv' /\ ReturnsEachItemOnce'
  BY SplitNext, ItemsStep
<1>3. SplitInv => SplitsWholeArrays  BY DEF SplitInv, Splitting, SplitsWholeArrays
<1> QED  BY <1>1, <1>2, <1>3, PTL DEF Spec, Safe
-----------------------------------------------------------------------------
(* Tokens of some kinds from u to w, and the containers open there.        *)
Counted(K, u, w) == Cardinality({x \in u..w : text[x].kind \in K})
Depth(u, w) == Counted(Opening, u, w) - Counted(Closing, u, w)

(* What is counted up to m, and behind it.                                 *)
LEMMA CountSplit ==
    ASSUME NEW K, NEW u \in Nat, NEW w \in Nat, NEW m \in u..w
    PROVE  /\ Counted(K, u, m) \in Nat /\ Counted(K, m + 1, w) \in Nat
           /\ Counted(K, u, w) = Counted(K, u, m) + Counted(K, m + 1, w)
<1> DEFINE first == {x \in u..m : text[x].kind \in K}
           rest == {x \in m + 1..w : text[x].kind \in K}
           all == {x \in u..w : text[x].kind \in K}
<1>1. IsFiniteSet(first) /\ IsFiniteSet(rest)
  <2>1. IsFiniteSet(u..m) /\ IsFiniteSet(m + 1..w)  BY FS_Interval
  <2>2. first \subseteq u..m /\ rest \subseteq m + 1..w  OBVIOUS
  <2> QED  BY <2>1, <2>2, FS_Subset
<1>2. all = first \cup rest /\ first \cap rest = {}  OBVIOUS
<1> HIDE DEF first, rest, all
<1>3. Cardinality(first) \in Nat /\ Cardinality(rest) \in Nat  BY <1>1, FS_CardinalityType
<1>4. Cardinality(all) = Cardinality(first) + Cardinality(rest) - Cardinality(first \cap rest)
  BY <1>1, <1>2, FS_Union
<1>5. Cardinality(first \cap rest) = 0  BY <1>2, FS_EmptySet
<1> QED  BY <1>3, <1>4, <1>5 DEF Counted, first, rest, all

(* One token.                                                              *)
LEMMA CountOne ==
    ASSUME NEW K, NEW u \in Nat
    PROVE  Counted(K, u, u) = IF text[u].kind \in K THEN 1 ELSE 0
<1>1. {x \in u..u : text[x].kind \in K} = IF text[u].kind \in K THEN {u} ELSE {}
  <2>1. u..u = {u}  OBVIOUS
  <2> QED  BY <2>1
<1> QED  BY <1>1, FS_EmptySet, FS_Singleton DEF Counted

(* Depths add up, and a token changes them by one at most.                 *)
LEMMA DepthFacts ==
    ASSUME NEW u \in Nat, NEW w \in Nat, NEW m \in u..w
    PROVE  /\ Depth(u, m) \in Int /\ Depth(m + 1, w) \in Int
           /\ Depth(u, w) = Depth(u, m) + Depth(m + 1, w)
           /\ Depth(w, w) = IF text[w].kind \in Opening THEN 1
                            ELSE IF text[w].kind \in Closing THEN -1 ELSE 0
<1>1. /\ Counted(Opening, u, w) = Counted(Opening, u, m) + Counted(Opening, m + 1, w)
      /\ Counted(Opening, u, m) \in Nat /\ Counted(Opening, m + 1, w) \in Nat
  BY CountSplit
<1>2. /\ Counted(Closing, u, w) = Counted(Closing, u, m) + Counted(Closing, m + 1, w)
      /\ Counted(Closing, u, m) \in Nat /\ Counted(Closing, m + 1, w) \in Nat
  BY CountSplit
<1>3. /\ Counted(Opening, w, w) = IF text[w].kind \in Opening THEN 1 ELSE 0
      /\ Counted(Closing, w, w) = IF text[w].kind \in Closing THEN 1 ELSE 0
  BY CountOne
<1>4. text[w].kind \notin Opening \/ text[w].kind \notin Closing  BY DEF Opening, Closing
<1> QED  BY <1>1, <1>2, <1>3, <1>4 DEF Depth

(* Where a container ends: the first token with as many closed as opened.  *)
IsEnd(u, v) == /\ v \in u + 1..Len(text)
               /\ text[v].kind \in Closing /\ Depth(u, v) = 0
               /\ \A w \in u + 1..v - 1 : Depth(u, w) > 0

(* EndOf finds it.                                                         *)
LEMMA EndFacts ==
    ASSUME text \in Texts, NEW u \in DOMAIN text, text[u].kind \in Opening
    PROVE  IsEnd(u, EndOf(u)) /\ Len(text) \in Nat /\ DOMAIN text = 1..Len(text)
<1>1. text \in Seq({text[x] : x \in DOMAIN text})  BY PolymorphicAssumption
<1>2. Len(text) \in Nat /\ DOMAIN text = 1..Len(text)  BY <1>1
<1>3. \E v \in u + 1..Len(text) : Ends(text, u, v)  BY PolymorphicAssumption
<1>4. PICK v : v = EndOf(u)  OBVIOUS
<1>5. v \in u + 1..Len(text) /\ Ends(text, u, v)  BY <1>3, <1>4 DEF EndOf
<1>6. /\ text[v].kind \in Closing
      /\ \A w \in u + 1..v : IF w = v THEN Counted(Opening, u, w) = Counted(Closing, u, w)
                             ELSE Counted(Opening, u, w) > Counted(Closing, u, w)
  BY <1>5 DEF Ends, Counted
<1>7. v \in u + 1..v /\ \A w \in u + 1..v - 1 : w \in u + 1..v /\ w # v  BY <1>2, <1>5
<1>8. \A w \in u + 1..v : Counted(Opening, u, w) \in Nat /\ Counted(Closing, u, w) \in Nat
  <2> TAKE w \in u + 1..v
  <2>1. u \in Nat /\ w \in Nat /\ w \in u..w  BY <1>2, <1>5
  <2> QED  BY <2>1, CountSplit
<1>9. Depth(u, v) = 0  BY <1>6, <1>7, <1>8 DEF Depth
<1>10. \A w \in u + 1..v - 1 : Depth(u, w) > 0  BY <1>6, <1>7, <1>8 DEF Depth
<1> QED  BY <1>2, <1>4, <1>5, <1>6, <1>9, <1>10 DEF IsEnd

(* A discriminator that is a member of the object itself.                  *)
IsOwn(u) == /\ u \in object + 1..EndOf(object)
            /\ text[u].kind = "name" /\ text[u].text = Discriminator
            /\ Depth(object, u) = 1

(* Until there is an answer, the cloned stands among the members, in front   *)
(* of all discriminators of the object.                                    *)
LookAhead ==
    /\ text \in Texts /\ object \in DOMAIN text /\ text[object].kind = "{"
    /\ object \in Nat
    /\ \A d : IsOwn(d) =>
          IF chosen = NoAnswer
          THEN cloned \in object..d - 1 /\ Depth(object, cloned) = 1
          ELSE \E f : /\ IsOwn(f) /\ (\A u : IsOwn(u) => f <= u)
                      /\ chosen = SubTypeOf(text[f + 1])

(* The text and the object stay.                                           *)
LEMMA OwnStays ==
    ASSUME UNCHANGED <<text, object>>
    PROVE  \A u : (IsOwn(u)' <=> IsOwn(u)) /\ SubTypeOf(text[u + 1])' = SubTypeOf(text[u + 1])
<1>1. \A u : EndOf(u)' = EndOf(u)
  BY DEF EndOf, Ends
<1>2. \A u, w : Depth(u, w)' = Depth(u, w)  BY DEF Depth, Counted
<1> QED  BY <1>1, <1>2 DEF IsOwn, SubTypeOf

(* The first members.                                                      *)
LEMMA LookAheadInit == ReadInit => LookAhead
<1> SUFFICES ASSUME ReadInit PROVE LookAhead  OBVIOUS
<1>1. /\ text \in Texts /\ object \in DOMAIN text /\ text[object].kind = "{"
      /\ cloned = object /\ chosen = NoAnswer
  BY DEF ReadInit, Kind
<1>2. text[object].kind \in Opening  BY <1>1 DEF Opening
<1>3. IsEnd(object, EndOf(object)) /\ Len(text) \in Nat /\ DOMAIN text = 1..Len(text)
  BY <1>1, <1>2, EndFacts
<1>4. object \in DOMAIN text /\ cloned = object /\ chosen = NoAnswer  BY <1>1
<1>5. object \in Nat
  <2>1. object \in 1..Len(text) /\ Len(text) \in Nat  BY <1>3, <1>4
  <2> QED  BY <2>1
<1>6. ASSUME NEW d, IsOwn(d) PROVE cloned \in object..d - 1 /\ Depth(object, cloned) = 1
  <2>1. object \in object..object  BY <1>5
  <2>2. Depth(object, object) = 1  BY <1>2, <1>5, <2>1, DepthFacts
  <2>3. PICK end : end = EndOf(object)  OBVIOUS
  <2>4. d \in object + 1..end  BY <1>6, <2>3 DEF IsOwn
  <2>5. object \in object..d - 1
    <3>1. end \in Int  BY <1>3, <1>5, <2>3 DEF IsEnd
    <3> QED  BY <1>5, <2>4, <3>1
  <2> QED  BY <1>4, <2>2, <2>5
<1> QED  BY <1>1, <1>5, <1>6 DEF LookAhead

(* Where the cloned lands next, if the object has a discriminator d: in      *)
(* front of it, among the members, unless that is where it lands.          *)
LEMMA LandingFacts ==
    ASSUME LookAhead, chosen = NoAnswer, NEW d, IsOwn(d)
    PROVE  LET next == Landing
           IN  /\ cloned < Len(text)
               /\ next \in object + 1..d /\ Depth(object, next) = 1
               /\ IsDiscriminator(next) => IsOwn(next)
<1> DEFINE end == EndOf(object)
           next == Landing
           after == cloned + 1
<1>1. /\ text \in Texts /\ object \in DOMAIN text /\ text[object].kind = "{"
      /\ cloned \in object..d - 1 /\ Depth(object, cloned) = 1
  BY DEF LookAhead
<1>2. text[object].kind \in Opening  BY <1>1 DEF Opening
<1>3. IsEnd(object, end) /\ Len(text) \in Nat /\ DOMAIN text = 1..Len(text)
  BY <1>1, <1>2, EndFacts
<1>4. d \in object + 1..end /\ end \in object + 1..Len(text)  BY <1>3 DEF IsOwn, IsEnd
<1>5. /\ text[d].kind = "name" /\ text[d].text = Discriminator /\ Depth(object, d) = 1
  BY DEF IsOwn
<1>6. text[d].kind \notin Opening /\ text[d].kind \notin Closing  BY <1>5 DEF Opening, Closing
<1>7. object \in Nat /\ d \in Nat /\ cloned \in Nat /\ after \in object + 1..d /\ cloned < Len(text)
  <2>1. object \in Nat  BY DEF LookAhead
  <2>2. cloned \in object..d - 1 /\ Len(text) \in Nat  BY <1>1, <1>3
  <2> QED  BY <1>4, <2>1, <2>2
<1>8. next = IF text[after].kind \in Opening THEN EndOf(after) ELSE after
  BY DEF Landing, Kind, Opening
<1>9. \A u : IsDiscriminator(u) <=> text[u].kind = "name" /\ text[u].text = Discriminator
  BY DEF IsDiscriminator, Kind
<1>10. after = cloned + 1 /\ cloned \in object..d - 1 /\ Depth(object, cloned) = 1
  BY <1>1 DEF after
<1> HIDE DEF end, next, after
<1>11. next \in object + 1..d /\ Depth(object, next) = 1
  <2>1. CASE text[after].kind \notin Opening
    <3>1. next = after  BY <1>8, <2>1
    <3>2. Depth(object, after) = 1 + Depth(after, after)
      <4>1. cloned \in object..after /\ after \in Nat  BY <1>7, <1>10
      <4>2. Depth(object, after) = Depth(object, cloned) + Depth(cloned + 1, after)
        BY <1>7, <4>1, DepthFacts
      <4> QED  BY <1>10, <4>2
    <3>3. Depth(after, after) = IF text[after].kind \in Closing THEN -1 ELSE 0
      <4>1. after \in Nat /\ after \in after..after  BY <1>7
      <4> QED  BY <2>1, <4>1, DepthFacts
    <3>4. text[after].kind \notin Closing
      <4>1. CASE after = d  BY <1>6, <4>1
      <4>2. CASE after # d
        <5>1. after \in object + 1..end - 1  BY <1>4, <1>7, <4>2
        <5>2. Depth(object, after) > 0  BY <1>3, <5>1 DEF IsEnd
        <5> QED  BY <3>2, <3>3, <5>2
      <4> QED  BY <4>1, <4>2
    <3> QED  BY <1>7, <3>1, <3>2, <3>3, <3>4
  <2>2. CASE text[after].kind \in Opening
    <3>1. after \in DOMAIN text  BY <1>3, <1>4, <1>7
    <3>2. IsEnd(after, next)  BY <1>1, <1>8, <2>2, <3>1, EndFacts
    <3>3. next \in after + 1..Len(text) /\ Depth(after, next) = 0 /\ text[next].kind \in Closing
      BY <3>2 DEF IsEnd
    <3>4. \A w \in after..Len(text) : Depth(object, w) = 1 + Depth(after, w)
      <4> TAKE w \in after..Len(text)
      <4>1. w \in Nat /\ cloned \in object..w  BY <1>3, <1>7, <1>10
      <4>2. Depth(object, w) = Depth(object, cloned) + Depth(cloned + 1, w)  BY <1>7, <4>1, DepthFacts
      <4> QED  BY <1>10, <4>2
    <3>5. Depth(object, next) = 1  BY <1>3, <1>7, <3>3, <3>4
    <3>6. next <= d
      <4> SUFFICES ASSUME d < next PROVE FALSE  BY <1>7, <3>3
      <4>1. d # after  BY <1>6, <2>2
      <4>2. d \in after + 1..next - 1 /\ d \in after..Len(text)
        BY <1>3, <1>4, <1>7, <3>3, <4>1
      <4>3. Depth(after, d) > 0  BY <3>2, <4>2 DEF IsEnd
      <4>4. Depth(after, d) \in Int
        <5>1. cloned \in object..d  BY <1>7, <1>10
        <5>2. Depth(cloned + 1, d) \in Int  BY <1>7, <5>1, DepthFacts
        <5> QED  BY <1>10, <5>2
      <4> QED  BY <1>5, <3>4, <4>2, <4>3, <4>4
    <3> QED  BY <1>7, <3>3, <3>5, <3>6
  <2> QED  BY <2>1, <2>2
<1>12. IsDiscriminator(next) => IsOwn(next)
  <2>1. next \in object + 1..end  BY <1>4, <1>7, <1>11
  <2> QED  BY <1>9, <1>11, <2>1 DEF IsOwn, end
<1> QED  BY <1>7, <1>11, <1>12 DEF next

(* Each step.                                                              *)
LEMMA LookAheadNext == LookAhead /\ [ReadNext]_readVars => LookAhead'
<1> SUFFICES ASSUME LookAhead, [ReadNext]_readVars PROVE LookAhead'  OBVIOUS
<1>1. UNCHANGED <<text, object>>
  BY DEF ReadNext, Pass, Choose, EndOfText, readVars
<1>2. \A u : (IsOwn(u)' <=> IsOwn(u)) /\ SubTypeOf(text[u + 1])' = SubTypeOf(text[u + 1])
  BY <1>1, OwnStays
<1>3. \A u, w : Depth(u, w)' = Depth(u, w)  BY <1>1 DEF Depth, Counted
<1>4. /\ text \in Texts /\ object \in DOMAIN text /\ text[object].kind = "{"
      /\ object \in Nat
  BY DEF LookAhead
<1>5. SUFFICES ASSUME NEW d, IsOwn(d)
               PROVE  IF chosen' = NoAnswer
                      THEN cloned' \in object..d - 1 /\ Depth(object, cloned') = 1
                      ELSE \E f : /\ IsOwn(f) /\ (\A u : IsOwn(u) => f <= u)
                                  /\ chosen' = SubTypeOf(text[f + 1])
  BY <1>1, <1>2, <1>3, <1>4 DEF LookAhead
<1>6. CASE UNCHANGED <<cloned, chosen>>  BY <1>5, <1>6 DEF LookAhead
<1>7. CASE Pass
  <2>1. chosen = NoAnswer /\ chosen' = NoAnswer /\ cloned' = Landing
        /\ ~IsDiscriminator(Landing)
    BY <1>7 DEF Pass
  <2>2. PICK next : next = Landing  OBVIOUS
  <2>3. next \in object + 1..d /\ Depth(object, next) = 1  BY <1>5, <2>1, <2>2, LandingFacts
  <2>4. next # d
    BY <1>5, <2>1, <2>2 DEF IsOwn, IsDiscriminator, Kind
  <2>5. object \in Nat /\ d \in Int
    <3>1. text[object].kind \in Opening  BY <1>4 DEF Opening
    <3>2. PICK end : end = EndOf(object)  OBVIOUS
    <3>3. object \in Nat  BY DEF LookAhead
    <3>4. end \in Int
      <4>1. Len(text) \in Nat /\ IsEnd(object, end)  BY <1>4, <3>1, <3>2, EndFacts
      <4> QED  BY <3>3, <4>1 DEF IsEnd
    <3>5. d \in object + 1..end  BY <1>5, <3>2 DEF IsOwn
    <3> QED  BY <3>3, <3>4, <3>5
  <2> QED  BY <2>1, <2>2, <2>3, <2>4, <2>5
<1>8. CASE Choose
  <2>1. chosen = NoAnswer /\ IsDiscriminator(Landing)
        /\ chosen' = SubTypeOf(text[Landing + 1])
    BY <1>8 DEF Choose
  <2>2. PICK next : next = Landing  OBVIOUS
  <2>3. \A u : IsOwn(u) => next \in object + 1..u /\ IsOwn(next)
    BY <2>1, <2>2, LandingFacts
  <2>4. \A u : IsOwn(u) => next <= u  BY <2>3
  <2>5. SubTypeOf(text[next + 1]) # NoAnswer
    BY PolymorphicAssumption DEF SubTypeOf
  <2> QED  BY <1>5, <2>1, <2>2, <2>3, <2>4, <2>5
<1>9. CASE EndOfText
  <2>1. chosen = NoAnswer /\ cloned = Len(text)  BY <1>9 DEF EndOfText
  <2>2. cloned < Len(text) /\ Len(text) \in Nat
    <3>1. text[object].kind \in Opening  BY <1>4 DEF Opening
    <3>2. Len(text) \in Nat  BY <1>4, <3>1, EndFacts
    <3> QED  BY <1>5, <2>1, <3>2, LandingFacts
  <2> QED  BY <2>1, <2>2
<1> QED  BY <1>6, <1>7, <1>8, <1>9 DEF ReadNext, readVars

(* For any text whose containers are closed, any discriminator and any sub *)
(* types: the first discriminator among an object's own members decides,   *)
(* wherever it stands and whatever objects inside call theirs              *)
(* (PolymorphicConverter lines 23-50).                                     *)
THEOREM FirstOwnDiscriminator == ReadSpec => []OwnDiscriminatorDecides
<1>1. ReadInit => LookAhead  BY LookAheadInit
<1>2. LookAhead /\ [ReadNext]_readVars => LookAhead'  BY LookAheadNext
<1>3. LookAhead => OwnDiscriminatorDecides
  <2> SUFFICES ASSUME LookAhead, chosen # NoAnswer, OwnDiscriminators # {}
               PROVE  LET value == text[First(OwnDiscriminators) + 1]
                      IN  chosen = IF value.kind = "string" /\ value.text \in SubTypes
                                   THEN value.text ELSE Invalid
    BY DEF OwnDiscriminatorDecides
  <2>1. ASSUME NEW u \in object + 1..EndOf(object)
        PROVE  Cardinality({x \in object..u : Kind(x) \in Opening})
                 = Cardinality({x \in object..u : Kind(x) \in Closing}) + 1
               <=> Depth(object, u) = 1
    <3>1. /\ Cardinality({x \in object..u : Kind(x) \in Opening})
               = Counted(Opening, object, u)
          /\ Cardinality({x \in object..u : Kind(x) \in Closing})
               = Counted(Closing, object, u)
      BY DEF Counted, Kind
    <3>2. Counted(Opening, object, u) \in Nat /\ Counted(Closing, object, u) \in Nat
      <4>1. object \in Nat  BY DEF LookAhead
      <4>2. u \in Nat /\ u \in object..u
        <5>1. PICK end : end = EndOf(object)  OBVIOUS
        <5>2. u \in object + 1..end /\ end \in Int
          <6>1. text[object].kind \in Opening /\ text \in Texts /\ object \in DOMAIN text
            BY DEF LookAhead, Opening
          <6>2. IsEnd(object, end) /\ Len(text) \in Nat  BY <5>1, <6>1, EndFacts
          <6> QED  BY <2>1, <4>1, <5>1, <6>2 DEF IsEnd
        <5> QED  BY <4>1, <5>2
      <4> QED  BY <4>1, <4>2, CountSplit
    <3> QED  BY <3>1, <3>2 DEF Depth
  <2>2. \A u : u \in OwnDiscriminators <=> IsOwn(u)
    BY <2>1 DEF OwnDiscriminators, IsOwn, IsDiscriminator, Kind
  <2>3. PICK f : IsOwn(f) /\ (\A u : IsOwn(u) => f <= u) /\ chosen = SubTypeOf(text[f + 1])
    BY <2>2 DEF LookAhead
  <2>4. First(OwnDiscriminators) = f
    <3>1. PICK S : S = OwnDiscriminators  OBVIOUS
    <3>2. f \in S /\ \A u \in S : f <= u /\ u \in Int  BY <2>2, <2>3, <3>1 DEF IsOwn
    <3>3. PICK g : g = First(S)  OBVIOUS
    <3>4. g \in S /\ \A u \in S : g <= u  BY <3>2, <3>3 DEF First
    <3> QED  BY <3>1, <3>2, <3>3, <3>4
  <2> QED  BY <2>3, <2>4 DEF SubTypeOf
<1> QED  BY <1>1, <1>2, <1>3, PTL DEF ReadSpec
=============================================================================

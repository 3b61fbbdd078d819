------------------------- MODULE JsonArraySplitter -------------------------
(***************************************************************************)
(* JsonArraySplitter: splits a root JSON array read from a stream into its *)
(* objects, with a byte buffer that slides over the stream and grows only  *)
(* when one token does not fit.                                            *)
(*                                                                         *)
(* A buffer cell is the number of the byte of the text it holds, 0 for the *)
(* NUL byte of a cleared cell, -1 for a byte of the byte order mark.  The  *)
(* Utf8JsonReader (external) is modelled by what Read does with the cells  *)
(* that follow the ones it has consumed.                                   *)
(*                                                                         *)
(* A definition whose name ends in Fault is the definition after it with a *)
(* plausible mistake; no specification uses it.                            *)
(***************************************************************************)
EXTENDS JsonTokens, Integers, Sequences, FiniteSets

CONSTANTS Streams,     \* the texts and their cuts: records [input, size,
                       \* bom, short]
          BufferSize,  \* initial buffer length (1024 in the code)
          BomLength,   \* bytes of the byte order mark (3)
          MaxYields    \* bound on the items a caller asks for

(* A token begins with the white space and commas before it.  Besides the  *)
(* brackets there are "name", a property name, "number", and "value", a    *)
(* string, true, false or null.                                            *)
Token == [kind : {"{", "[", "}", "]", "name", "number", "value"},
          start : Nat, text : Nat, end : Nat]

(* One token follows the other, and what follows a number is no part of it.*)
LaidOut(tokens) ==
    /\ \A u \in DOMAIN tokens :
          /\ tokens[u].start <= tokens[u].text /\ tokens[u].text <= tokens[u].end
          /\ tokens[u].start = IF u = 1 THEN 1 ELSE tokens[u - 1].end + 1
          /\ u > 1 /\ tokens[u - 1].kind = "number" =>
                tokens[u].start < tokens[u].text \/ tokens[u].kind \in Closing
    /\ \A u, v \in DOMAIN tokens : u < v => tokens[u].end < tokens[v].start

(* The bytes of the text; white space may follow them in the stream.       *)
LastByte(tokens) == IF tokens = <<>> THEN 0 ELSE tokens[Len(tokens)].end

ASSUME StreamAssumption ==
    /\ BufferSize \in Nat /\ BomLength \in 1..BufferSize /\ MaxYields \in Nat
    /\ \A s \in Streams :
          /\ s.input \in Seq(Token) /\ LaidOut(s.input)
          /\ s.size \in Nat /\ s.bom \in BOOLEAN /\ s.short \in BOOLEAN
          \* A text is cut behind a bracket, never within a token.
          /\ s.size < LastByte(s.input) =>
                \E u \in DOMAIN s.input :
                    s.input[u].kind \in Opening \cup Closing /\ s.size = s.input[u].end

VARIABLES input, size, bom, \* the text, its bytes in the stream, is there a BOM
          short,            \* may Stream.Read return fewer bytes than there are
          delivered,        \* bytes taken from the stream, BOM included
          buffer,           \* this.buffer
          isFinalBlock,     \* this.isFinalBlock
          cached,           \* this.jsonReaderState
          reader,           \* the Utf8JsonReader of the current call
          pc,               \* which loop runs, "idle" between two calls
          item,             \* tokens written to the current output
          yielded, result   \* items given, and how the last call ended

streamVars == <<input, size, bom, short>>
vars == <<streamVars, delivered, buffer, isFinalBlock, cached, reader, pc, item, yielded, result>>

Min2(a, b) == IF a < b THEN a ELSE b

(* JsonReaderState: the last token read, the containers open, and the last *)
(* byte consumed of the white space before the next token (0: none).       *)
Fresh == [last |-> 0, open |-> 0, mid |-> 0]

(* How far into the text that is.                                          *)
Position(state) == IF state.mid # 0 THEN state.mid
                   ELSE IF state.last # 0 THEN input[state.last].end ELSE 0

(* A reader is that state and the number of buffer cells consumed.         *)
NewReader(state) == [state |-> state, at |-> 0]
---------------------------------------------------------------------------
(* The stream.                                                             *)
BomBytes == IF bom THEN BomLength ELSE 0
Bytes == size + BomBytes
TextDelivered == delivered - BomBytes
StreamByte(n) == IF ~bom THEN n ELSE IF n <= BomLength THEN -1 ELSE n - BomLength

(* What one Stream.Read of count bytes may return, `taken` bytes in.       *)
ReadResults(taken, count) ==
    LET most == Min2(count, Bytes - taken)
    IN  IF most = 0 THEN {0} ELSE IF short THEN 1..most ELSE {most}

(* StreamExtensions.ReadBytes repeats Read until it has all the bytes      *)
(* wanted or the stream is over.                                           *)
ReadBytes(taken, count) == Min2(count, Bytes - taken)

(* buf with n stream bytes, `taken` bytes in, stored after its first k.    *)
Store(buf, k, n, taken) ==
    [j \in DOMAIN buf |-> IF j \in k + 1..k + n THEN StreamByte(taken + j - k) ELSE buf[j]]

\* The move leaves one cell out.
MoveToFrontFault(buf, k) ==
    [j \in DOMAIN buf |-> IF j + k + 1 \in DOMAIN buf THEN buf[j + k + 1] ELSE buf[j]]

(* Span.CopyTo of all but the first k cells; the cells behind keep theirs. *)
MoveToFront(buf, k) ==
    [j \in DOMAIN buf |-> IF j + k \in DOMAIN buf THEN buf[j + k] ELSE buf[j]]

ClearFrom(buf, k) == [j \in DOMAIN buf |-> IF j > k THEN 0 ELSE buf[j]]
---------------------------------------------------------------------------
(* Utf8JsonReader.Read on the cells after the consumed ones.               *)
Rest == SubSeq(buffer, reader.at + 1, Len(buffer))

(* Bytes first..last stand at the beginning of Rest, as far as it goes.    *)
Stands(first, last) ==
    \A j \in 1..Min2(Len(Rest), last - first + 1) : Rest[j] = first + j - 1

(* Where token u goes on, if it is the one the reader is at; after the     *)
(* root value there is no other.                                           *)
From(u) == IF reader.state.mid = 0 THEN input[u].start ELSE reader.state.mid + 1
AtToken(u) == /\ Rest # <<>>
              /\ reader.state.open > 0 \/ reader.state.last = 0
              /\ From(u) \in input[u].start..input[u].text
              /\ Stands(From(u), input[u].end)

(* The bytes that token u still has.                                       *)
Ahead(u) == input[u].end - From(u) + 1

(* A number wants a byte behind it, unless nothing can follow.             *)
Fits(u) == IF input[u].kind = "number" /\ ~isFinalBlock
           THEN Ahead(u) < Len(Rest) ELSE Ahead(u) <= Len(Rest)

(* White space outside the root value, and what may stand behind a number. *)
WhiteSpace(byte) ==
    \/ byte > LastByte(input)
    \/ input # <<>> /\ byte \in input[1].start..input[1].text - 1
Separates(byte) ==
    \/ byte > LastByte(input)
    \/ \E v \in DOMAIN input : /\ byte \in input[v].start..input[v].end
                               /\ byte < input[v].text \/ input[v].kind \in Closing

Blank == \A j \in DOMAIN Rest : WhiteSpace(Rest[j])

Reads(u) == /\ u \in DOMAIN input /\ AtToken(u) /\ Fits(u)
            /\ input[u].kind = "number" =>
                  Ahead(u) = Len(Rest) \/ Separates(Rest[Ahead(u) + 1])
NeedsMore == Blank \/ \E u \in DOMAIN input : AtToken(u) /\ ~Fits(u)

(* Behind a whole root value the reader just has no more to read; this is  *)
(* where Read returns FALSE on the final block.                            *)
AtEnd == Blank /\ reader.state.last # 0 /\ reader.state.open = 0
Throws == \/ NeedsMore /\ isFinalBlock /\ ~AtEnd
          \/ ~NeedsMore /\ ~\E u \in DOMAIN input : Reads(u)

(* The reader once it has read token u.                                    *)
After(u) ==
    [state |-> [last |-> u, mid |-> 0,
                open |-> reader.state.open + (IF input[u].kind \in Opening THEN 1
                                              ELSE IF input[u].kind \in Closing THEN -1
                                              ELSE 0)],
     at |-> reader.at + Ahead(u)]

(* The reader with n more bytes consumed, the last of them this one.       *)
Consumed(n, byte) ==
    [state |-> [reader.state EXCEPT !.mid = byte], at |-> reader.at + n]

(* The reader once Read has returned FALSE: all white space outside the    *)
(* root value is consumed, and some before an incomplete token may be.     *)
Stalled ==
    IF Rest = <<>> THEN {reader}
    ELSE IF Blank THEN {Consumed(Len(Rest), TextDelivered)}
    ELSE {reader} \cup
         UNION {{Consumed(n, From(u) + n - 1) :
                    n \in 1..Min2(Len(Rest), input[u].text - From(u))} :
                u \in {v \in DOMAIN input : AtToken(v)}}
---------------------------------------------------------------------------
Init == /\ \E s \in Streams : input = s.input /\ size = s.size /\ bom = s.bom /\ short = s.short
        /\ delivered = 0
        /\ buffer = [j \in 1..BufferSize |-> 0]
        /\ isFinalBlock = FALSE
        /\ cached = Fresh
        /\ reader = NewReader(Fresh)
        /\ pc = "new"
        /\ item = <<>>
        /\ yielded = <<>>
        /\ result = "none"

StartsWithBom(buf) == \A j \in 1..BomLength : buf[j] = -1

(* After a byte order mark the buffer is completed by one Read only.       *)
InitializeBuffer ==
    /\ pc = "new"
    /\ LET count == ReadBytes(0, BufferSize)
           read == Store(buffer, 0, count, 0)
           kept == BufferSize - BomLength
       IN  IF StartsWithBom(read)
           THEN \E extra \in ReadResults(count, BomLength) :
                   /\ buffer' = Store(ClearFrom(MoveToFront(read, BomLength), kept),
                                      kept, extra, count)
                   /\ delivered' = count + extra
           ELSE buffer' = read /\ delivered' = count
    /\ IF size = 0
       THEN pc' = "failed" /\ result' = "refused"
       ELSE pc' = "start" /\ UNCHANGED result
    /\ UNCHANGED <<streamVars, isFinalBlock, cached, reader, item, yielded>>

(* Another ReadNextItem; a caller may ask again after it was told FALSE.   *)
ReadNextItem == /\ pc = "idle"
                /\ Len(yielded) < MaxYields
                /\ reader' = NewReader(cached)
                /\ item' = <<>>
                /\ pc' = "search"
                /\ UNCHANGED <<streamVars, delivered, buffer, isFinalBlock, cached, yielded, result>>

\* The buffer grows as soon as anything is left over.
GrownLengthFault(left) == IF left > 0 THEN 2 * Len(buffer) ELSE Len(buffer)

(* Array.Resize when nothing of the buffer was consumed.                   *)
GrownLength(left) == IF left = Len(buffer) THEN 2 * left ELSE Len(buffer)

(* Inside ReadNextToken, Read returns FALSE.  The cells not left over are  *)
(* cleared before the refill, except when all of them were consumed.       *)
GetMoreBytesFromStream ==
    /\ pc \in {"start", "search", "write"}
    /\ NeedsMore /\ ~isFinalBlock
    /\ \E r \in Stalled :
          LET left == Len(buffer) - r.at
              length == GrownLength(left)
              moved == [j \in 1..length |-> IF j <= left THEN buffer[j + r.at]
                                            ELSE IF left = 0 THEN buffer[j] ELSE 0]
              wanted == length - left
              count == ReadBytes(delivered, wanted)
          IN  /\ buffer' = Store(moved, left, count, delivered)
              /\ delivered' = delivered + count
              /\ isFinalBlock' = (count # wanted)
              /\ cached' = r.state
              /\ reader' = NewReader(r.state)
    /\ UNCHANGED <<streamVars, pc, item, yielded, result>>

(* The consumed cells are dropped and the buffer is filled again, but what *)
(* the refill could not overwrite at the end of the stream stays.          *)
CacheStateForLaterUse(r) ==
    LET left == Len(buffer) - r.at
        count == ReadBytes(delivered, r.at)
    IN  /\ buffer' = Store(MoveToFront(buffer, r.at), left, count, delivered)
        /\ delivered' = delivered + count
        /\ cached' = r.state

(* ReadStartArrayToken: skips any token before the first "[" but "{".      *)
ReadStartArrayToken ==
    /\ pc = "start"
    /\ \E u \in DOMAIN input :
          /\ Reads(u)
          /\ reader' = After(u)
          /\ CASE input[u].kind = "[" -> /\ CacheStateForLaterUse(After(u))
                                         /\ pc' = "idle" /\ UNCHANGED result
               [] input[u].kind = "{" -> /\ pc' = "failed" /\ result' = "refused"
                                         /\ UNCHANGED <<buffer, delivered, cached>>
               [] OTHER -> UNCHANGED <<buffer, delivered, cached, pc, result>>
    /\ UNCHANGED <<streamVars, isFinalBlock, item, yielded>>

(* Read returns FALSE on the final block, behind a lone scalar: the loop   *)
(* asks again, and again.                                                  *)
ReadReturnsFalse ==
    /\ pc = "start"
    /\ isFinalBlock /\ AtEnd
    /\ reader' \in Stalled
    /\ UNCHANGED <<streamVars, delivered, buffer, isFinalBlock, cached, pc, item, yielded, result>>

(* SearchStartOfObject: a "]", of whatever array, ends the search, and a   *)
(* "[" does not stop it.                                                   *)
SearchStartOfObject ==
    /\ pc = "search"
    /\ \E u \in DOMAIN input :
          /\ Reads(u)
          /\ reader' = After(u)
          /\ CASE input[u].kind = "{" -> pc' = "write" /\ item' = <<u>> /\ UNCHANGED result
               [] input[u].kind = "]" -> pc' = "idle" /\ result' = "end" /\ UNCHANGED item
               [] input[u].kind \in {"value", "number"} ->
                     pc' = "failed" /\ result' = "refused" /\ UNCHANGED item
               [] OTHER -> UNCHANGED <<pc, item, result>>
    /\ UNCHANGED <<streamVars, delivered, buffer, isFinalBlock, cached, yielded>>

(* Brackets the writer has open: a second value at the root, or a closing  *)
(* bracket too many, makes it throw.                                       *)
WriterOpen == Cardinality({j \in DOMAIN item : input[item[j]].kind \in Opening})
                - Cardinality({j \in DOMAIN item : input[item[j]].kind \in Closing})

\* The first "}" is taken for the end of the item.
EndsItemFault(u) == input[u].kind = "}"

(* The "}" whose CurrentDepth is 1 at most: for a closing bracket, the     *)
(* containers still open after it.                                         *)
EndsItem(u) == input[u].kind = "}" /\ After(u).state.open <= 1

WriteNextItem ==
    /\ pc = "write"
    /\ \E u \in DOMAIN input :
          /\ Reads(u)
          /\ reader' = After(u)
          /\ IF WriterOpen = 0
             THEN /\ pc' = "failed" /\ result' = "refused"
                  /\ UNCHANGED <<item, yielded, buffer, delivered, cached>>
             ELSE /\ item' = Append(item, u)
                  /\ IF EndsItem(u)
                     THEN /\ yielded' = Append(yielded, item')
                          /\ CacheStateForLaterUse(After(u))
                          /\ pc' = "idle"
                     ELSE UNCHANGED <<yielded, buffer, delivered, cached, pc>>
                  /\ UNCHANGED result
    /\ UNCHANGED <<streamVars, isFinalBlock>>

(* Read throws a JsonException, which leaves the splitter.                 *)
ReaderThrows == /\ pc \in {"start", "search", "write"}
                /\ Throws
                /\ pc' = "failed"
                /\ result' = "refused"
                /\ UNCHANGED <<streamVars, delivered, buffer, isFinalBlock, cached, reader,
                               item, yielded>>

Next == \/ InitializeBuffer \/ ReadNextItem
        \/ GetMoreBytesFromStream
        \/ ReadStartArrayToken \/ ReadReturnsFalse \/ SearchStartOfObject \/ WriteNextItem
        \/ ReaderThrows

Safe == Init /\ [][Next]_vars

(* The code is sequential; its caller reads to the end.                    *)
Spec == Safe /\ WF_vars(Next)
---------------------------------------------------------------------------
(* The bytes taken from the stream and not yet parsed stand in the buffer, *)
(* in one piece, at the place where the reader goes on: none is lost,      *)
(* doubled or displaced by sliding, growing or refilling the buffer (lines *)
(* 93-112 and 171-210).                                                    *)
BufferHoldsInput ==
    LET r == IF pc = "idle" THEN NewReader(cached) ELSE reader
        unread == TextDelivered - Position(r.state)
    IN  pc \notin {"new", "failed"} =>
            \A j \in 1..unread :
                /\ r.at + j \in DOMAIN buffer
                /\ buffer[r.at + j] = Position(r.state) + j

(* The buffer doubles only for one token, with what stands before it, that *)
(* did not fit: a number has to leave a byte for what follows it (lines    *)
(* 184-199).                                                               *)
GrowsForOneToken ==
    \/ Len(buffer) <= BufferSize
    \/ \E u \in DOMAIN input :
          Len(buffer) <= 2 * (input[u].end - input[u].start
                               + IF input[u].kind = "number" THEN 1 ELSE 0)

Abstract == INSTANCE JsonArrayItems

(* The splitter yields exactly the items of the text, however they fall    *)
(* across the refills of the buffer, and refuses only bad texts.  It comes *)
(* to an answer, and gives the same one when asked again.                  *)
ImplementsJsonArrayItems == Abstract!AbstractSpec

(* "split a root JSON array and return each json item" (line 8): every     *)
(* item given is the next item of the text.                                *)
ReturnsEachItemOnce ==
    /\ Len(yielded) <= Abstract!ItemCount(input)
    /\ \A n \in DOMAIN yielded : yielded[n] = Abstract!Item(input, n)

(* "Split array from a file encoded in UTF8 with BOM ... Then the array     *)
(* items are found" (ProcessingUTF8WithBOM.feature, lines 3-7): a whole    *)
(* array of objects is never refused, mark or no mark.                     *)
SplitsWholeArrays ==
    Abstract!ArrayOfObjects(input, size) => result # "refused"
===========================================================================

--------------------------- MODULE JsonArrayItems ---------------------------
(***************************************************************************)
(* What JsonArraySplitter promises: asked again and again, it yields the   *)
(* objects of a root array one by one, in order, each of them whole, then  *)
(* says that there is none left.  It refuses only what is not a complete   *)
(* array of objects.  Two promises are missing: it takes an inner array    *)
(* that it meets between the items for the end, if there is no object in   *)
(* it, and it may never answer on a lone value with white space around it. *)
(*                                                                         *)
(* A JSON text is its sequence of tokens; a token is its kind and the      *)
(* bytes it takes: start..text-1 are the white space and separator before  *)
(* it, text..end its own.  Tokens follow each other without a gap.  The    *)
(* stream holds the bytes 1..size of the text: fewer than all, if it was   *)
(* cut, and more, if white space follows it.                               *)
(***************************************************************************)
EXTENDS JsonTokens, Integers, Sequences, FiniteSets

VARIABLES input,   \* the tokens of the text
          size,    \* the number of its bytes in the stream
          yielded, \* the items given so far, each the sequence of its tokens
          result   \* "none" | "end" | "refused"

abstractVars == <<input, size, yielded, result>>

(* Containers still open after token u.                                    *)
OpenAfter(tokens, u) ==
    Cardinality({v \in 1..u : tokens[v].kind \in Opening})
        - Cardinality({v \in 1..u : tokens[v].kind \in Closing})

(* The token that closes what token u opens.                               *)
Match(tokens, u) ==
    CHOOSE v \in u + 1..Len(tokens) :
        /\ OpenAfter(tokens, v) = OpenAfter(tokens, u) - 1
        /\ \A w \in u..v - 1 : OpenAfter(tokens, w) >= OpenAfter(tokens, u)

ItemStarts(tokens) ==
    {u \in DOMAIN tokens : tokens[u].kind = "{" /\ OpenAfter(tokens, u) = 2}

(* Item number n: the tokens of the n-th object of the root array.         *)
ItemCount(tokens) == Cardinality(ItemStarts(tokens))
Item(tokens, n) ==
    LET first == CHOOSE u \in ItemStarts(tokens) :
                     Cardinality({v \in ItemStarts(tokens) : v <= u}) = n
        last == Match(tokens, first)
    IN  [k \in 1..last - first + 1 |-> first + k - 1]

(* A whole root array with nothing but objects in it.                      *)
ArrayOfObjects(tokens, bytes) ==
    /\ tokens # <<>>
    /\ bytes >= tokens[Len(tokens)].end
    /\ tokens[1].kind = "["
    /\ \A u \in 2..Len(tokens) - 1 :
          OpenAfter(tokens, u - 1) = 1 => tokens[u].kind = "{"

(* The token the search for item n + 1 begins with.                        *)
SearchFrom(tokens, n) == IF n = 0 THEN 2 ELSE Item(tokens, n)[Len(Item(tokens, n))] + 1

(* Behind n items comes an array with nothing but arrays at its front.     *)
ArrayBehind(tokens, n) ==
    \E v \in SearchFrom(tokens, n) + 1..Len(tokens) :
        /\ tokens[v].kind = "]"
        /\ \A u \in SearchFrom(tokens, n)..v - 1 : tokens[u].kind = "["

(* A value that is no array and no object, in white space.                 *)
LoneValue(tokens, bytes) ==
    /\ Len(tokens) = 1 /\ tokens[1].kind \notin Opening
    /\ bytes > tokens[1].end - tokens[1].text + 1

AbstractInit == yielded = <<>> /\ result = "none"

Yield == /\ result = "none"
         /\ Len(yielded) < ItemCount(input)
         /\ yielded' = Append(yielded, Item(input, Len(yielded) + 1))
         /\ UNCHANGED <<input, size, result>>

End == /\ result = "none"
       /\ \/ ArrayOfObjects(input, size) /\ Len(yielded) = ItemCount(input)
          \/ Len(yielded) <= ItemCount(input) /\ ArrayBehind(input, Len(yielded))
       /\ result' = "end"
       /\ UNCHANGED <<input, size, yielded>>

Refuse == /\ result = "none"
          /\ ~ArrayOfObjects(input, size)
          /\ result' = "refused"
          /\ UNCHANGED <<input, size, yielded>>

AbstractNext == Yield \/ End \/ Refuse

AbstractSafe == AbstractInit /\ [][AbstractNext]_abstractVars
AbstractSpec == AbstractSafe /\ WF_abstractVars(AbstractNext /\ ~LoneValue(input, size))
=============================================================================

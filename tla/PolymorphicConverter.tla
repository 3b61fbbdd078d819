------------------------ MODULE PolymorphicConverter ------------------------
(***************************************************************************)
(* PolymorphicConverter.Read: looks ahead, with a copy of the reader, for  *)
(* the discriminator of the object the reader stands at, and deserializes  *)
(* the object as the sub type it names.                                    *)
(*                                                                         *)
(* A JSON text is a sequence of tokens [kind, text]; the kinds are the     *)
(* brackets, "name" for a property name, "string" and "other" for values.  *)
(* The objects of a text are converted from the outside in, each by a call *)
(* of its own: the model is one such call, at any object of the text.      *)
(* The text is what the reader of that call is scoped to: the object       *)
(* around it that JsonSerializer.Deserialize was called for (line 49), or  *)
(* the whole document.                                                     *)
(*                                                                         *)
(* A definition whose name ends in Fault is the definition after it with a *)
(* plausible mistake; no specification uses it.                            *)
(***************************************************************************)
EXTENDS JsonTokens, Integers, Sequences, FiniteSets

CONSTANTS Texts,         \* the JSON texts considered
          Discriminator, \* PolymorphicConverterOptions.Discriminator
          SubTypes,      \* the keys of PolymorphicConverterOptions.SubTypes
          NoAnswer, NotFound, Invalid \* outcomes that are no sub type

(* Token v of a text ends the container that token u opens.                *)
Ends(tokens, u, v) ==
    /\ tokens[v].kind \in Closing
    /\ \A w \in u + 1..v :
          LET open == Cardinality({x \in u..w : tokens[x].kind \in Opening})
              shut == Cardinality({x \in u..w : tokens[x].kind \in Closing})
          IN  IF w = v THEN open = shut ELSE open > shut

(* On a text that leaves a container open the reader throws.               *)
ASSUME PolymorphicAssumption ==
    /\ SubTypes \cap {NoAnswer, NotFound, Invalid} = {} /\ NoAnswer \notin {NotFound, Invalid}
    /\ \A tokens \in Texts :
          /\ tokens \in Seq({tokens[u] : u \in DOMAIN tokens})
          /\ \A u \in DOMAIN tokens :
                tokens[u].kind \in Opening => \E v \in u + 1..Len(tokens) : Ends(tokens, u, v)

VARIABLES text,   \* the tokens of the text
          object, \* the object being converted: its StartObject
          cloned, \* the token the copy of the reader stands at
          chosen  \* the sub type, or how the call has failed

readVars == <<text, object, cloned, chosen>>

Kind(u) == text[u].kind

(* The end of the container that token u opens.                            *)
EndOf(u) == CHOOSE v \in u + 1..Len(text) : Ends(text, u, v)

ReadInit == /\ text \in Texts
            /\ object \in {u \in DOMAIN text : Kind(u) = "{"}
            /\ cloned = object
            /\ chosen = NoAnswer

\* Nested containers are entered.
LandingFault == cloned + 1

(* Where Read, and TrySkip on a container, take the copy.                  *)
Landing == IF Kind(cloned + 1) \in Opening THEN EndOf(cloned + 1) ELSE cloned + 1

IsDiscriminator(u) == Kind(u) = "name" /\ text[u].text = Discriminator

(* Anything but the discriminator is passed over, the end of the object    *)
(* itself included.                                                        *)
Pass == /\ chosen = NoAnswer /\ cloned < Len(text)
        /\ ~IsDiscriminator(Landing)
        /\ cloned' = Landing
        /\ UNCHANGED <<text, object, chosen>>

(* What GetString and the look-up of the sub type make of a value: the one *)
(* throws on what is no string, the other must succeed.                    *)
SubTypeOf(value) == IF value.kind = "string" /\ value.text \in SubTypes THEN value.text ELSE Invalid

Choose == /\ chosen = NoAnswer /\ cloned < Len(text)
          /\ IsDiscriminator(Landing)
          /\ cloned' = Landing + 1
          /\ chosen' = SubTypeOf(text[Landing + 1])
          /\ UNCHANGED <<text, object>>

EndOfText == /\ chosen = NoAnswer /\ cloned = Len(text)
             /\ chosen' = NotFound
             /\ UNCHANGED <<text, object, cloned>>

ReadNext == Pass \/ Choose \/ EndOfText

ReadSpec == ReadInit /\ [][ReadNext]_readVars
----------------------------------------------------------------------------
(* The discriminators that are members of the object itself.               *)
OwnDiscriminators ==
    {u \in object + 1..EndOf(object) :
        /\ IsDiscriminator(u)
        /\ Cardinality({x \in object..u : Kind(x) \in Opening})
             = Cardinality({x \in object..u : Kind(x) \in Closing}) + 1}

First(S) == CHOOSE u \in S : \A v \in S : u <= v

(* An object that has a discriminator gets the sub type its first one      *)
(* names, wherever it stands among the members and whatever the objects    *)
(* inside call theirs; no other value will do (lines 23-50).               *)
OwnDiscriminatorDecides ==
    chosen # NoAnswer /\ OwnDiscriminators # {} =>
        LET value == text[First(OwnDiscriminators) + 1]
        IN  chosen = IF value.kind = "string" /\ value.text \in SubTypes
                     THEN value.text ELSE Invalid

(* "Discriminator ... not found" (line 52) is what an object without one   *)
(* gets.                                                                   *)
MissingIsReported ==
    chosen # NoAnswer /\ OwnDiscriminators = {} => chosen = NotFound
============================================================================

---------------------- MODULE MCPolymorphicConverter ----------------------
(* Texts for TLC: an object whose members, in every order, are some of a   *)
(* discriminator or two, another value, an array of two objects and an     *)
(* object, the inner ones with and without discriminators.                 *)
EXTENDS PolymorphicConverter, SequencesExt

Token(k, t) == [kind |-> k, text |-> t]
Name(n) == Token("name", n)
Object(members) == <<Token("{", "")>> \o FlattenSeq(members) \o <<Token("}", "")>>
Array(items) == <<Token("[", "")>> \o FlattenSeq(items) \o <<Token("]", "")>>

\* A member is its name and its value.
Scalar == <<Name("name"), Token("string", "type")>>
Type(v) == <<Name("type"), v>>
Named(n, value) == <<Name(n)>> \o value

Inner == {Object(<<>>), Object(<<Scalar>>), Object(<<Type(Token("string", "A")), Scalar>>)}
Values == {Token("string", "A"), Token("string", "B"), Token("string", "none"),
           Token("other", "1")}
Members == {{Type(v), Scalar, Named("items", Array(<<i, j>>))} :
               v \in Values, i \in Inner, j \in Inner}
             \cup {{Type(v), Named("child", i)} : v \in Values, i \in Inner}
             \cup {{Type(v), Type(Token("string", "B")), Named("child", i)} : v \in Values, i \in Inner}
             \cup {{Named("child", i), Named("items", Array(<<i>>))} : i \in Inner}

MCTexts == UNION {{Object(s) : s \in SetToSeqs(m)} : m \in Members}
=============================================================================

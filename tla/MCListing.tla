----------------------------- MODULE MCListing -----------------------------
(* Instances of Listing and Search for TLC.                                  *)
EXTENDS Search, TLC

CONSTANTS l1, s1

OneLister == {l1}
OneStream == {s1}
ThreeKeys == 1..3
P(page, perPage) == [page |-> page, perPage |-> perPage]

(* The pages that divide three entries evenly and unevenly, one behind the   *)
(* end, and one that is refused.                                            *)
SomePages == {P(1, 2), P(2, 2), P(2, 1), P(3, 2), P(1, 3)}

(* A word, an empty string, and what reads like something else.              *)
SomeTexts == {"word", "", "7", "NaN", "true", "T"}
OneNumber == {"7"}
NotANumber == {"NaN"}
SomeTruths == {"true", "T"}

Str(text) == Scalar("string", text)
Seven == Scalar("number", "7")
Yes == Scalar("bool", "true")
ObjectOf(name, value) == Object(<<Member(name, value)>>)

(* What is found in the first entry is plain but for one value, in the       *)
(* second nothing is found, and in the third what XPath cannot tell.         *)
MixedFinds ==
    <<<<ObjectOf("a", Array(<<Str("word"), Array(<<Seven>>)>>)), Str("7")>>,
      <<>>,
      <<Null, Yes, Str(""), Str("T"), Str("NaN"), Array(<<>>), Object(<<>>),
        Array(<<Str("")>>), Array(<<Str("word"), Str("")>>), Array(<<Null, Seven>>),
        ObjectOf("", Str("word")), ObjectOf("a", ObjectOf("", Null)), ObjectOf("a", Str("true")),
        Object(<<Member("a", Object(<<>>)), Member("b", Array(<<Yes, Seven>>))>>)>>>>
=============================================================================

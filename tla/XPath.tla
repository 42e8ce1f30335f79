-------------------------------- MODULE XPath --------------------------------
(* What the XPath searches make of the documents they find: jsonquery parses *)
(* the listing into a tree of nodes, whose leaves are texts, and             *)
(* getObjectFromXPathNode turns the nodes that were found into values again  *)
(* (src/catalog/controller.go).                                              *)
EXTENDS Sequences

CONSTANTS
    Texts,     \* what strings may say
    Numbers,   \* texts that ParseFloat reads as a number
    Infinite,  \* texts it reads as a number that JSON cannot say ("Inf", "NaN")
    Truths     \* texts that ParseBool reads, and ParseFloat does not

ASSUME TextAssumption ==
    /\ Numbers \cup Infinite \cup Truths \cup {""} \subseteq Texts
    /\ "" \notin Numbers \cup Infinite \cup Truths
    /\ Numbers \cap Infinite = {} /\ (Numbers \cup Infinite) \cap Truths = {}

---------------------------------------------------------------------------
(* Values and nodes                                                        *)

(* A JSON value: null, a number, a truth value, a string, an array of values *)
(* or an object, the members of which are listed by name.                    *)
Scalar(type, text) == [type |-> type, text |-> text]
Null == [type |-> "null"]
Array(values) == [type |-> "array", items |-> values]
Member(name, value) == [name |-> name, value |-> value]
Object(members) == [type |-> "object", members |-> members]

Node(type, data, children) == [type |-> type, data |-> data, children |-> children]
TextNode(text) == Node("text", text, <<>>)
ElementNode(name, children) == Node("element", name, children)

(* jsonquery.parseValue: the nodes below the one of a value.  The items of   *)
(* an array have no name, null and what is empty have no nodes.              *)
RECURSIVE parseValue(_)
parseValue(v) ==
    CASE v.type = "array" ->
            [i \in DOMAIN v.items |-> ElementNode("", parseValue(v.items[i]))]
      [] v.type = "object" ->
            [i \in DOMAIN v.members |->
                ElementNode(v.members[i].name, parseValue(v.members[i].value))]
      [] v.type \in {"string", "number", "bool"} -> <<TextNode(v.text)>>
      [] v.type = "null" -> <<>>

(* Mutant: truth values are looked for first.                                *)
basicTypeTruthsFirst(text) ==
    IF text \in Truths \cup Numbers THEN Scalar("bool", text)
    ELSE IF text \in Infinite THEN Scalar("number", text)
    ELSE Scalar("string", text)

basicTypeFromXPathStr(text) ==
    IF text \in Numbers \cup Infinite THEN Scalar("number", text)
    ELSE IF text \in Truths THEN Scalar("bool", text)
    ELSE Scalar("string", text)

(* A first child without data is taken for the item of an array, and         *)
(* whatever has no children for an object.                                   *)
RECURSIVE getObjectFromXPathNode(_)
getObjectFromXPathNode(n) ==
    LET children == n.children
        first == Head(children)
    IN
    IF n.type = "text" THEN basicTypeFromXPathStr(n.data)
    ELSE IF children # <<>> /\ first.data = ""
    THEN Array([i \in DOMAIN children |-> getObjectFromXPathNode(children[i])])
    ELSE IF children # <<>> /\ first.type = "text"
    THEN basicTypeFromXPathStr(first.data)
    ELSE Object([i \in DOMAIN children |->
                    Member(children[i].data, getObjectFromXPathNode(children[i]))])

(* What a search answers for a value that its path has found.                *)
Found(v) == getObjectFromXPathNode(ElementNode("a", parseValue(v)))

(* A value in which nothing is null or has no name, no string or array is    *)
(* empty, and no string reads like a number or a truth value.                *)
RECURSIVE Plain(_)
Plain(v) ==
    CASE v.type = "null" -> FALSE
      [] v.type \in {"number", "bool"} -> TRUE
      [] v.type = "string" -> v.text \notin {""} \cup Numbers \cup Infinite \cup Truths
      [] v.type = "array" -> v.items # <<>> /\ \A i \in DOMAIN v.items : Plain(v.items[i])
      [] v.type = "object" ->
            \A i \in DOMAIN v.members : v.members[i].name # "" /\ Plain(v.members[i].value)
=============================================================================

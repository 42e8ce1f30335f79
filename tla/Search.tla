------------------------------- MODULE Search -------------------------------
(* The searches list everything, evaluate a path on it, and answer with what *)
(* the path finds, or with a page of that (src/catalog/controller.go).       *)
EXTENDS Listing, XPath, SequencesExt

CONSTANT Finds   \* the values that the path finds in each entry, in order

ASSUME FindsAssumption == DOMAIN Finds = Keys

(* What the path finds in a listing; nothing in an empty slot of it.         *)
Results(listing) ==
    FlattenSeq([i \in DOMAIN listing |->
                   IF listing[i] = Nil THEN <<>> ELSE Finds[listing[i]]])

(* The deprecated searches of GetMany answer with a page, those of           *)
(* SearchJSONPath and SearchXPath with everything.                           *)
filterXPathBytes(listing) ==
    LET values == Results(listing) IN [i \in DOMAIN values |-> Found(values[i])]
filterXPath(listing, p) == Slice(filterXPathBytes(listing), p)
filterJSONPath(listing, p) == Slice(Results(listing), p)

---------------------------------------------------------------------------

(* A page of a search holds the results its number says.  JSONPath answers   *)
(* with what was found; so does XPath if that is plain, and with something   *)
(* else if it is not: a string that reads like a number becomes one, an      *)
(* empty string an array, an empty array and null an object, an object with  *)
(* a nameless member an array (filterJSONPath, filterXPath, GetPagingAttr,   *)
(* basicTypeFromXPathStr, getObjectFromXPathNode).                           *)
SearchExact ==
    \A l \in Listers : (lpc[l] = "done" /\ ask[l].all) =>
        LET values == Results(items[l])
            answer == filterXPathBytes(items[l])
        IN
        /\ Len(answer) = Len(values)
        /\ \A i \in DOMAIN values : answer[i] = values[i] <=> Plain(values[i])
        /\ \A p \in Pages : ValidPaging(p) =>
              /\ filterJSONPath(items[l], p) = PageOf(values, p.page, p.perPage)
              /\ filterXPath(items[l], p) = PageOf(answer, p.page, p.perPage)
=============================================================================
